---- MODULE Spec2Model ----
(***************************************************************************)
(* Nyay-Samiti Legal AI service: the orchestration layer of the REST API.  *)
(*                                                                         *)
(* The model covers the combined analysis route (POST /analyze/complete),  *)
(* the batch job store and its background task, the analysis trigger and   *)
(* its background task with the backend callbacks, and the single-model    *)
(* routes.  Model inference itself is abstract: a model call either raises *)
(* or returns a value drawn from a small set of possible outputs.          *)
(*                                                                         *)
(* Coroutines run on one asyncio event loop: a coroutine keeps the loop    *)
(* until it awaits network I/O (the httpx calls of BackendIntegration).    *)
(* The variable running names the coroutine that holds the loop.           *)
(***************************************************************************)
EXTENDS Integers, Sequences, FiniteSets, TLC

(* ------------------------------ bounds -------------------------------- *)
MaxJobs == 2
MaxDocs == 2
MaxRequests == 2
MaxClauses == 1
MaxQuestions == 1
MaxTriggers == 2
MaxReplies == 1
MaxThreads == 2
MaxLoads == 3
MaxScored == 2
MaxTextLen == 5

(* ------------------------- program constants -------------------------- *)
NumRiskClasses == 10
DefaultSummaryLength == 150
TriggerRiskClauses == 5
TriggerResultClauses == 15
HashModulus == 10000
NerMaxLength == 512
NerChunkFactor == 3
NerMaxChunks == 3
NerTopEntities == 50
ContextWindow == 50
MinEntityLength == 2

None == "None"

(* Optional[T] of a non-string T: the empty set is None, {v} is the value v. *)
IsNone(o) == o = {}
Value(o) == CHOOSE v \in o : TRUE

(* dict.get(key, default) *)
Get(d, k, default) == IF k \in DOMAIN d THEN d[k] ELSE default

RECURSIVE SumSeq(_)
SumSeq(s) == IF s = <<>> THEN 0 ELSE Head(s) + SumSeq(Tail(s))

(* round(total / n, 2), in hundredths; ties go to the even neighbour. *)
Round2(total, n) ==
    LET q == (100 * total) \div n
        r == (100 * total) % n
    IN  IF 2 * r > n THEN q + 1
        ELSE IF 2 * r < n THEN q
        ELSE IF q % 2 = 0 THEN q ELSE q + 1

(* ----------------------------- exceptions ------------------------------ *)
InferenceError == "inference error"
LoadError == "cannot load checkpoint"
ValidationError == "1 validation error for DocumentAnalysisRequest: text field required"
TransportError == "connect error"
EncodeError == "Object is not JSON serializable"
NoneTypeError == "'NoneType' object has no attribute"

(* --------------------------- model wrappers ---------------------------- *)
ModelNames == {"classifier", "ner", "risk", "qa", "summarizer", "comparator", "recommender"}

(* The order in which get_models of routes_document_analysis fills _models. *)
LoadOrder == <<"classifier", "ner", "risk", "qa", "summarizer", "comparator", "recommender">>

(* The entries that get_models fills through a get-or-create accessor. *)
SingletonOf ==
    [k \in {"risk", "comparator", "recommender"} |->
        CASE k = "risk" -> "risk_scorer"
          [] k = "comparator" -> "clause_comparator"
          [] k = "recommender" -> "clause_recommender"]

SingletonNames == {"risk_scorer", "clause_comparator", "clause_recommender", "legal_qa"}

IndexOf(k) == CHOOSE i \in 1..Len(LoadOrder) : LoadOrder[i] = k

(* RiskScorer.risk_levels *)
risk_levels ==
    [s \in 1..NumRiskClasses |->
        CASE s = 1 -> "Minimal" [] s = 2 -> "Very Low" [] s = 3 -> "Low"
          [] s = 4 -> "Low-Medium" [] s = 5 -> "Medium" [] s = 6 -> "Medium-High"
          [] s = 7 -> "High" [] s = 8 -> "Very High" [] s = 9 -> "Critical"
          [] OTHER -> "Severe"]

(* A score_clause that forgets the "+ 1" of the class index. *)
score_clauseZeroBased(class) ==
    [risk_score |-> class, risk_level |-> risk_levels[class + 1], confidence |-> 875]

(* RiskScorer.score_clause: argmax over the classes 0..9, plus one. *)
score_clause(class) ==
    [risk_score |-> class + 1, risk_level |-> risk_levels[class + 1], confidence |-> 875]

ScorerResults == {score_clause(c) : c \in 0..(NumRiskClasses - 1)}

(* The outputs of the fine-tuned classifier for one clause: one value per  *)
(* class, here with the highest value at one class or tied at two.         *)
RiskClasses == 0..(NumRiskClasses - 1)
Logits == {[i \in RiskClasses |-> IF i \in {c, d} THEN 1 ELSE 0] : c, d \in RiskClasses}

(* torch.argmax: the index of the first maximal value. *)
argmax(probs) ==
    CHOOSE i \in DOMAIN probs :
        /\ \A j \in DOMAIN probs : probs[j] <= probs[i]
        /\ \A j \in DOMAIN probs : j < i => probs[j] < probs[i]

(* The clause dicts POST /risk/score_document is called with; the texts    *)
(* are shorter than the 100 characters score_document cuts clause_text at. *)
RiskClauseDicts ==
    {[text |-> "t1", type |-> "Termination"], [clause_text |-> "t2"],
     [text |-> "", type |-> "Termination"], [type |-> "Termination"]}

ClauseTextOf(clause) == Get(clause, "text", Get(clause, "clause_text", ""))

(* RiskScorer.score_document, the per-clause part: outputs[i] is what the  *)
(* classifier gives for clauses[i]; a clause with no text is skipped.      *)
RECURSIVE all_clause_scores(_, _)
all_clause_scores(clauses, outputs) ==
    IF clauses = <<>> THEN <<>>
    ELSE LET clause == Head(clauses)
             rest == all_clause_scores(Tail(clauses), Tail(outputs))
             score_result == score_clause(argmax(Head(outputs)))
         IN  IF ClauseTextOf(clause) = "" THEN rest
             ELSE <<[clause_text |-> ClauseTextOf(clause),
                     clause_type |-> Get(clause, "type",
                                         Get(clause, "clause_type", "Unknown")),
                     risk_score |-> score_result.risk_score,
                     risk_level |-> score_result.risk_level,
                     confidence |-> score_result.confidence]>> \o rest

(* The classifier outputs of the clauses score_document scores. *)
RECURSIVE Scored(_, _)
Scored(clauses, outputs) ==
    IF clauses = <<>> THEN <<>>
    ELSE IF ClauseTextOf(Head(clauses)) = "" THEN Scored(Tail(clauses), Tail(outputs))
    ELSE <<Head(outputs)>> \o Scored(Tail(clauses), Tail(outputs))

(* RiskScorer._get_risk_level, of an average in hundredths *)
get_risk_level(score) ==
    IF score <= 300 THEN "Low Risk"
    ELSE IF score <= 600 THEN "Medium Risk"
    ELSE IF score <= 800 THEN "High Risk"
    ELSE "Critical Risk"

(* RiskScorer.score_document *)
score_document(clauses, outputs) ==
    LET results == all_clause_scores(clauses, outputs)
        total_score == SumSeq([i \in 1..Len(results) |-> results[i].risk_score])
    IN  IF Len(results) = 0
        THEN [overall_risk_score |-> 0, overall_risk_level |-> "Unknown",
              num_clauses |-> 0, clauses |-> <<>>]
        ELSE [overall_risk_score |-> Round2(total_score, Len(results)),
              overall_risk_level |-> get_risk_level((100 * total_score) \div Len(results)),
              num_clauses |-> Len(results),
              all_clause_scores |-> results]

(* ClauseClassifier.predict: the clauses found, sorted by score, highest    *)
(* first. The i-th clause of a document has paragraph i.                   *)
ClauseLabels == <<"Termination", "Governing Law", "Indemnification">>

Clause(i) ==
    [paragraph |-> i, label |-> ClauseLabels[((i - 1) % Len(ClauseLabels)) + 1],
     score |-> 100 - 10 * i, full_text |-> i]

ClauseLists == {[i \in 1..n |-> Clause(i)] : n \in 0..MaxClauses}

(* LegalNER.predict *)
EntityLists ==
    {<<[text |-> "Acme", type |-> "ORGANIZATION", score |-> 99, context |-> "Acme"]>>}

(* Summarizer.summarize *)
Summaries == {"summary."}

(* LegalQA.answer_question *)
Answers ==
    {[question |-> "q", answer |-> "a", confidence |-> 40, context_preview |-> "t",
      answer_start |-> 3, answer_end |-> 4]}

(* ------------------------------ requests ------------------------------- *)
Question(i) == <<"q", i>>

QuestionLists == {[i \in 1..n |-> Question(i)] : n \in 0..MaxQuestions}

(* DocumentAnalysisRequest *)
Requests ==
    [text : {"t1"},
     document_id : {None, "d1"},
     questions : {{}} \cup {{q} : q \in QuestionLists},
     summary_length : {{}, {0}, {80}}]

(* The dicts of BatchAnalysisRequest.documents: the second has no "text"   *)
(* and no "document_id".                                                   *)
Documents ==
    {[text |-> "t1", document_id |-> "d1", questions |-> <<Question(1)>>],
     [summary_length |-> 80]}

DocumentLists == UNION {[1..n -> Documents] : n \in 0..MaxDocs}

(* The request built from a document dict: pydantic fills the defaults. *)
ValidDocument(doc) == "text" \in DOMAIN doc

DocumentAnalysisRequest(doc) ==
    [text |-> doc.text,
     document_id |-> Get(doc, "document_id", None),
     questions |-> IF "questions" \in DOMAIN doc THEN {doc.questions} ELSE {},
     summary_length |-> IF "summary_length" \in DOMAIN doc
                        THEN {doc.summary_length} ELSE {DefaultSummaryLength}]

(* ------------------------------- state --------------------------------- *)
VARIABLES
    models,          \* routes_document_analysis._models: name -> loaded
    singletons,      \* the get-or-create accessors' global instances: name -> created
    instances,       \* the instance each accessor's global holds (0 is None)
    made,            \* accessor -> how many instances its constructor has returned
    constructed,     \* module, model -> constructor returns inside get_models
    workers,         \* the threadpool threads that run the sync routes
    loads,           \* the get_models calls made on their own: what each returned
    ner,             \* a LegalNER.predict call: its text and what it has computed
    batch_jobs,      \* routes_document_analysis._batch_jobs: job id -> record
    tasks,           \* the process_batch background task of each job
    runs,            \* the analyze_document_complete call of each caller
    running,         \* the coroutine that holds the event loop
    clock,           \* datetime.utcnow(), one tick per reading
    next_job,        \* uuid4 of the next batch job
    next_analysis,   \* uuid4 of the next analysis
    submitted,       \* job id -> the response analyze_batch returned
    trigger_models,  \* routes_analysis_trigger._models: loaded or None
    triggers,        \* the process_document_analysis task of each trigger request
    replies,         \* the responses of the routes that call one service
    poll             \* the response get_batch_status is returning, if any

batchVars == <<batch_jobs, tasks, next_job, submitted>>
triggerVars == <<trigger_models, triggers>>
loadVars == <<singletons, instances, made, constructed, workers, loads, ner>>

IdleNer == [pc |-> "idle", text |-> <<>>, tokens |-> <<>>, entities_raw |-> <<>>,
            merged_entities |-> <<>>, out |-> <<>>]
Modules == {"document_analysis", "analysis_trigger"}
ThreadIds == 1..MaxThreads
IdleWorker == [pc |-> "idle", accessor |-> None, local |-> 0, got |-> 0]

vars == <<models, loadVars, runs, running, clock, next_analysis, poll,
          replies, batchVars, triggerVars>>

JobIds == 1..MaxJobs
PollIds == 1..(MaxJobs + 1)

ReqCallers == {<<"req", i>> : i \in 1..MaxRequests}
JobCallers == {<<"job", j>> : j \in JobIds}
Callers == ReqCallers \cup JobCallers
NoOne == <<"none", 0>>

IsJob(c) == c[1] = "job"

NoRequest == [text |-> "", document_id |-> None, questions |-> {}, summary_length |-> {}]
NoResponse == [analysis_id |-> 0]
NoReply == [code |-> 0]
NoPoll == [job_id |-> 0, reply |-> NoReply]

IdleRun ==
    [pc |-> "idle", request |-> NoRequest, analysis_id |-> 0, calls |-> <<>>,
     classifications |-> <<>>, entities |-> <<>>, risks |-> <<>>,
     summary_text |-> "", qa_results |-> <<>>, response |-> NoResponse,
     callback |-> "none", reply |-> NoReply]

NoTask == [pc |-> "none", documents |-> <<>>, idx |-> 0]

TriggerIds == 1..MaxTriggers

NoTrigger ==
    [pc |-> "none", analysis_id |-> None, document_id |-> None, document_text |-> "",
     reply |-> NoReply, entities |-> <<>>, classifications |-> <<>>,
     risk_scores |-> <<>>, summary |-> "", log |-> <<>>, updated |-> "none"]

Init ==
    /\ models = [k \in ModelNames |-> FALSE]
    /\ singletons = [k \in SingletonNames |-> FALSE]
    /\ instances = [k \in SingletonNames |-> 0]
    /\ made = [k \in SingletonNames |-> 0]
    /\ constructed = [module \in Modules |-> [k \in ModelNames |-> 0]]
    /\ workers = [w \in ThreadIds |-> IdleWorker]
    /\ loads = <<>>
    /\ ner = IdleNer
    /\ batch_jobs = <<>>
    /\ tasks = [j \in JobIds |-> NoTask]
    /\ runs = [c \in Callers |-> IdleRun]
    /\ running = NoOne
    /\ clock = 0
    /\ next_job = 1
    /\ next_analysis = 1
    /\ submitted = <<>>
    /\ trigger_models = FALSE
    /\ triggers = [t \in TriggerIds |-> NoTrigger]
    /\ replies = <<>>
    /\ poll = NoPoll


(* ------------------------------ get_models ----------------------------- *)
NoFailure == Len(LoadOrder) + 1

(* The constructors that can raise in a get_models call: none when the     *)
(* classifier entry is set (nothing is constructed), and not an accessor   *)
(* whose instance exists already.                                          *)
FailPoints(m, s) ==
    IF m["classifier"] THEN {NoFailure}
    ELSE {i \in 1..NoFailure :
            i <= Len(LoadOrder) =>
                ~(LoadOrder[i] \in DOMAIN SingletonOf /\ s[SingletonOf[LoadOrder[i]]])}

GetModelsRaises(m, failAt) == ~m["classifier"] /\ failAt <= Len(LoadOrder)

(* _models after get_models: the entries before the failing constructor. *)
get_models(m, failAt) ==
    IF m["classifier"] THEN m
    ELSE [k \in ModelNames |-> m[k] \/ IndexOf(k) < failAt]

(* The constructor returns a get_models call of routes_document_analysis  *)
(* adds: one for each entry before the failing constructor, none through  *)
(* an accessor whose instance exists.                                     *)
ConstructedAfter(m, s, failAt) ==
    IF m["classifier"] THEN constructed
    ELSE [constructed EXCEPT !["document_analysis"] =
            [k \in ModelNames |->
                IF /\ IndexOf(k) < failAt
                   /\ ~(k \in DOMAIN SingletonOf /\ s[SingletonOf[k]])
                THEN @[k] + 1 ELSE @[k]]]

(* An accessor that creates its instance on the event loop: the global is  *)
(* None before and holds the new instance after.                           *)
InstancesAfter(s, after) ==
    [n \in SingletonNames |-> IF ~s[n] /\ after[n] THEN made[n] + 1 ELSE instances[n]]

MadeAfter(s, after) ==
    [n \in SingletonNames |-> IF ~s[n] /\ after[n] THEN made[n] + 1 ELSE made[n]]

SingletonsAfter(m, s, failAt) ==
    IF m["classifier"] THEN s
    ELSE [n \in SingletonNames |->
            s[n] \/ \E k \in DOMAIN SingletonOf :
                        SingletonOf[k] = n /\ IndexOf(k) < failAt]

(* A call of a method of models[name]: it raises or returns one of results. *)
CallOutcomes(m, name, results) ==
    IF ~m[name]
    THEN {[ok |-> FALSE, error |-> NoneTypeError]}
    ELSE {[ok |-> FALSE, error |-> InferenceError]}
         \cup {[ok |-> TRUE, value |-> v] : v \in results}

Call(name, arg, out) == [model |-> name, arg |-> arg, ok |-> out.ok]

(* ---------------------- analyze_document_complete ---------------------- *)
(* The handler's except clause: HTTP 500, "Analysis failed: <exception>". *)
AnalysisFailed(run, e) ==
    [run EXCEPT !.pc = "raised",
                !.reply = [code |-> 500, detail |-> "Analysis failed: " \o e]]

(* Who holds the loop once the handler has answered: process_batch goes on. *)
HolderAfter(c) == IF IsJob(c) THEN c ELSE NoOne

RiskEntry(clause, risk_result) ==
    [clause_text |-> clause.paragraph,
     clause_type |-> clause.label,
     risk_score |-> Get(risk_result, "score", 0),
     risk_level |-> Get(risk_result, "level", "UNKNOWN"),
     confidence |-> Get(risk_result, "confidence", 0)]

QaEntry(question, answer) ==
    [question |-> question,
     answer |-> Get(answer, "answer", ""),
     confidence |-> Get(answer, "confidence", 0),
     start |-> Get(answer, "answer_start", 0),
     end |-> Get(answer, "answer_end", 0)]

SummaryMaxLength(request) ==
    IF IsNone(request.summary_length) \/ Value(request.summary_length) = 0
    THEN DefaultSummaryLength
    ELSE Value(request.summary_length)

HasQuestions(request) ==
    ~IsNone(request.questions) /\ Len(Value(request.questions)) > 0

HighRiskCount(risks) ==
    Cardinality({i \in 1..Len(risks) : risks[i].risk_level \in {"HIGH", "CRITICAL"}})

AverageRisk(risks, total_clauses) ==
    IF total_clauses > 0
    THEN Round2(SumSeq([i \in 1..Len(risks) |-> risks[i].risk_score]), total_clauses)
    ELSE 0

DocumentAnalysisResponse(run, now) ==
    [analysis_id |-> run.analysis_id,
     document_id |-> run.request.document_id,
     timestamp |-> now,
     clauses |-> run.classifications,
     clause_count |-> Len(run.classifications),
     entities |-> run.entities,
     entity_count |-> Len(run.entities),
     risks |-> run.risks,
     high_risk_count |-> HighRiskCount(run.risks),
     average_risk_score |-> AverageRisk(run.risks, Len(run.classifications)),
     summary |-> run.summary_text,
     summary_length |-> Len(run.summary_text),
     qa_results |-> run.qa_results,
     processing_time_ms |-> 0,
     model_versions |-> [classifier |-> "legalbert-cuad-v1", ner |-> "legalbert-ner-v1",
                         risk |-> "legalbert-risk-v1", summarizer |-> "bart-legal-v1",
                         qa |-> "legalbert-qa-v1"]]

(* BackendIntegration.send_analysis_result: what the caller gets for each   *)
(* outcome of the POST. An httpx.HTTPError becomes an error dict; any other *)
(* exception (the encoding of the payload, the decoding of the body)        *)
(* leaves the method.                                                       *)
NetOutcomes == {"2xx", "http_error", "error"}

send_analysis_result(net) ==
    CASE net = "2xx" -> [raised |-> FALSE, value |-> [success |-> "True"]]
      [] net = "http_error" ->
            [raised |-> FALSE, value |-> [error |-> TransportError, status |-> "failed"]]
      [] OTHER -> [raised |-> TRUE, error |-> EncodeError]

(* An update_analysis_status with no except clause: the httpx.HTTPError     *)
(* reaches the caller.                                                     *)
update_analysis_statusUncaught(net) ==
    CASE net = "2xx" -> [raised |-> FALSE, value |-> TRUE]
      [] net = "http_error" -> [raised |-> TRUE, error |-> TransportError]
      [] OTHER -> [raised |-> TRUE, error |-> EncodeError]

(* update_analysis_status: True, False for an httpx.HTTPError, or raises. *)
update_analysis_status(net) ==
    CASE net = "2xx" -> [raised |-> FALSE, value |-> TRUE]
      [] net = "http_error" -> [raised |-> FALSE, value |-> FALSE]
      [] OTHER -> [raised |-> TRUE, error |-> EncodeError]

(* What the handler logs for the callback before it returns the response. *)
CallbackLog(sent) ==
    IF sent.raised THEN "backend integration error"
    ELSE IF Get(sent.value, "status", None) = "failed" THEN "backend integration warning"
    ELSE "results sent"

(* POST /analyze/complete arrives. *)
SubmitComplete(c) ==
    /\ c \in ReqCallers
    /\ running = NoOne
    /\ runs[c].pc = "idle"
    /\ \E request \in Requests :
        runs' = [runs EXCEPT ![c] = [IdleRun EXCEPT !.pc = "get_models", !.request = request]]
    /\ running' = c
    /\ UNCHANGED <<models, loadVars, clock, next_analysis, batchVars, triggerVars>>
    /\ poll' = NoPoll
    /\ UNCHANGED replies

(* models = get_models(); analysis_id = str(uuid.uuid4()) *)
AnalyzeGetModels(c) ==
    /\ running = c
    /\ runs[c].pc = "get_models"
    /\ \E failAt \in FailPoints(models, singletons) :
        /\ models' = get_models(models, failAt)
        /\ singletons' = SingletonsAfter(models, singletons, failAt)
        /\ instances' = InstancesAfter(singletons, singletons')
        /\ made' = MadeAfter(singletons, singletons')
        /\ constructed' = ConstructedAfter(models, singletons, failAt)
        /\ UNCHANGED <<workers, loads, ner>>
        /\ IF GetModelsRaises(models, failAt)
           THEN /\ runs' = [runs EXCEPT ![c] = AnalysisFailed(@, LoadError)]
                /\ running' = HolderAfter(c)
                /\ UNCHANGED next_analysis
           ELSE /\ runs' = [runs EXCEPT ![c].pc = "classify",
                                        ![c].analysis_id = next_analysis]
                /\ next_analysis' = next_analysis + 1
                /\ UNCHANGED running
    /\ UNCHANGED <<clock, batchVars, triggerVars>>
    /\ poll' = NoPoll
    /\ UNCHANGED replies

(* One model call of the handler: the run after it, given its outcome. *)
AfterClassify(run, out) ==
    LET called == [run EXCEPT !.calls = Append(@, Call("classifier", run.request.text, out))]
    IN  IF ~out.ok THEN AnalysisFailed(called, out.error)
        ELSE [called EXCEPT !.pc = "ner", !.classifications = out.value]

(* A handler that goes from NER straight to the summary. *)
AfterNerSkippingRisk(run, out) ==
    LET called == [run EXCEPT !.calls = Append(@, Call("ner", run.request.text, out))]
    IN  IF ~out.ok THEN AnalysisFailed(called, out.error)
        ELSE [called EXCEPT !.pc = "summarize", !.entities = out.value]

AfterNer(run, out) ==
    LET called == [run EXCEPT !.calls = Append(@, Call("ner", run.request.text, out))]
    IN  IF ~out.ok THEN AnalysisFailed(called, out.error)
        ELSE [called EXCEPT !.pc = IF Len(run.classifications) > 0 THEN "risk"
                                    ELSE "summarize",
                            !.entities = out.value]

(* A risk loop that catches the scorer's exception for one clause and goes  *)
(* on with an entry of score 0, as the loop of the triggered analysis does. *)
AfterRiskDegrading(run, out) ==
    LET clause == run.classifications[Len(run.risks) + 1]
        called == [run EXCEPT !.calls = Append(@, Call("risk", clause.paragraph, out))]
    IN  [called EXCEPT !.pc = IF Len(run.risks) + 1 < Len(run.classifications)
                                THEN "risk" ELSE "summarize",
                        !.risks = Append(@, RiskEntry(clause, IF out.ok THEN out.value
                                                              ELSE [level |-> "ERROR"]))]

AfterRisk(run, out) ==
    LET clause == run.classifications[Len(run.risks) + 1]
        called == [run EXCEPT !.calls = Append(@, Call("risk", clause.paragraph, out))]
    IN  IF ~out.ok THEN AnalysisFailed(called, out.error)
        ELSE [called EXCEPT !.pc = IF Len(run.risks) + 1 < Len(run.classifications)
                                    THEN "risk" ELSE "summarize",
                            !.risks = Append(@, RiskEntry(clause, out.value))]

AfterSummarize(run, out) ==
    LET called == [run EXCEPT
                      !.calls = Append(@, Call("summarizer", SummaryMaxLength(run.request), out))]
    IN  IF ~out.ok THEN AnalysisFailed(called, out.error)
        ELSE [called EXCEPT !.pc = IF HasQuestions(run.request) THEN "qa" ELSE "respond",
                            !.summary_text = out.value]

AfterQa(run, out) ==
    LET questions == Value(run.request.questions)
        question == questions[Len(run.qa_results) + 1]
        called == [run EXCEPT !.calls = Append(@, Call("qa", question, out))]
    IN  IF ~out.ok THEN AnalysisFailed(called, out.error)
        ELSE [called EXCEPT !.pc = IF Len(run.qa_results) + 1 < Len(questions)
                                    THEN "qa" ELSE "respond",
                            !.qa_results = Append(@, QaEntry(question, out.value))]

(* The step of a model call: the handler goes on, or has raised. *)
StepModel(c, after) ==
    /\ runs' = [runs EXCEPT ![c] = after]
    /\ running' = IF after.pc = "raised" THEN HolderAfter(c) ELSE c
    /\ UNCHANGED <<models, loadVars, clock, next_analysis, batchVars, triggerVars>>
    /\ poll' = NoPoll
    /\ UNCHANGED replies

(* classifications = models["classifier"].predict(request.text) *)
AnalyzeClassify(c) ==
    /\ running = c
    /\ runs[c].pc = "classify"
    /\ \E out \in CallOutcomes(models, "classifier", ClauseLists) :
        StepModel(c, AfterClassify(runs[c], out))

(* entities = models["ner"].predict(request.text) *)
AnalyzeNer(c) ==
    /\ running = c
    /\ runs[c].pc = "ner"
    /\ \E out \in CallOutcomes(models, "ner", EntityLists) :
        StepModel(c, AfterNer(runs[c], out))

(* One turn of the loop over classifications: score_clause, risks.append. *)
AnalyzeRisk(c) ==
    /\ running = c
    /\ runs[c].pc = "risk"
    /\ \E out \in CallOutcomes(models, "risk", ScorerResults) :
        StepModel(c, AfterRisk(runs[c], out))

(* summary_text = models["summarizer"].summarize(...) *)
AnalyzeSummarize(c) ==
    /\ running = c
    /\ runs[c].pc = "summarize"
    /\ \E out \in CallOutcomes(models, "summarizer", Summaries) :
        StepModel(c, AfterSummarize(runs[c], out))

(* One turn of the loop over request.questions: answer_question, append. *)
AnalyzeQa(c) ==
    /\ running = c
    /\ runs[c].pc = "qa"
    /\ \E out \in CallOutcomes(models, "qa", Answers) :
        StepModel(c, AfterQa(runs[c], out))

(* The response is built and the handler awaits send_analysis_result. *)
AnalyzeRespond(c) ==
    /\ running = c
    /\ runs[c].pc = "respond"
    /\ runs' = [runs EXCEPT ![c].pc = "send",
                            ![c].response = DocumentAnalysisResponse(runs[c], clock)]
    /\ clock' = clock + 1
    /\ running' = NoOne
    /\ UNCHANGED <<models, loadVars, next_analysis, batchVars, triggerVars>>
    /\ poll' = NoPoll
    /\ UNCHANGED replies

(* A handler whose callback is not wrapped: its exception fails the request. *)
AfterCallbackRaising(run, sent) ==
    IF sent.raised THEN AnalysisFailed(run, sent.error)
    ELSE [run EXCEPT !.pc = "returned",
                     !.callback = CallbackLog(sent),
                     !.reply = [code |-> 200, body |-> run.response]]

(* The handler after the callback: whatever it did, the response is returned. *)
AfterCallback(run, sent) ==
    [run EXCEPT !.pc = "returned",
                !.callback = CallbackLog(sent),
                !.reply = [code |-> 200, body |-> run.response]]

(* The POST to the backend ends, one way or another; the response is returned. *)
AnalyzeReturn(c) ==
    /\ running = NoOne
    /\ runs[c].pc = "send"
    /\ \E net \in NetOutcomes :
        runs' = [runs EXCEPT ![c] = AfterCallback(@, send_analysis_result(net))]
    /\ running' = HolderAfter(c)
    /\ UNCHANGED <<models, loadVars, clock, next_analysis, batchVars, triggerVars>>
    /\ poll' = NoPoll
    /\ UNCHANGED replies

Analyze(c) ==
    \/ AnalyzeGetModels(c)
    \/ AnalyzeClassify(c)
    \/ AnalyzeNer(c)
    \/ AnalyzeRisk(c)
    \/ AnalyzeSummarize(c)
    \/ AnalyzeQa(c)
    \/ AnalyzeRespond(c)
    \/ AnalyzeReturn(c)


(* ------------------------------ batch jobs ----------------------------- *)
QueuedJob(documents, now) ==
    [status |-> "queued",
     total_documents |-> Len(documents),
     processed |-> 0,
     results |-> <<>>,
     started_at |-> {now},
     completed_at |-> {},
     error |-> None]

BatchAnalysisResponse(job_id, job) ==
    [job_id |-> job_id,
     status |-> job.status,
     total_documents |-> job.total_documents,
     processed |-> job.processed,
     results |-> job.results,
     started_at |-> job.started_at,
     completed_at |-> job.completed_at]

(* A store that is rebuilt around the new job: the older jobs are dropped. *)
AddJobReplacing(jobs, job_id, job) == (job_id :> job)

(* _batch_jobs[job_id] = {...} *)
AddJob(jobs, job_id, job) == (job_id :> job) @@ jobs

(* POST /analyze/batch: the record is stored, the task queued, the id returned. *)
analyze_batch ==
    /\ running = NoOne
    /\ next_job <= MaxJobs
    /\ \E documents \in DocumentLists :
        /\ batch_jobs' = AddJob(batch_jobs, next_job, QueuedJob(documents, clock))
        /\ tasks' = [tasks EXCEPT ![next_job] =
                        [pc |-> "queued", documents |-> documents, idx |-> 0]]
        /\ submitted' = (next_job :> [job_id |-> next_job, status |-> "queued",
                                      total_documents |-> Len(documents)]) @@ submitted
    /\ clock' = clock + 1
    /\ next_job' = next_job + 1
    /\ UNCHANGED <<models, loadVars, runs, running, next_analysis, triggerVars>>
    /\ poll' = NoPoll
    /\ UNCHANGED replies

(* A lookup that treats a failed job as gone. *)
get_batch_status_replyHidingFailed(jobs, job_id) ==
    IF job_id \notin DOMAIN jobs \/ jobs[job_id].status = "failed"
    THEN [code |-> 404, detail |-> "Job not found"]
    ELSE [code |-> 200, body |-> BatchAnalysisResponse(job_id, jobs[job_id])]

(* GET /analyze/batch/{job_id} *)
get_batch_status_reply(jobs, job_id) ==
    IF job_id \notin DOMAIN jobs
    THEN [code |-> 404, detail |-> "Job not found"]
    ELSE [code |-> 200, body |-> BatchAnalysisResponse(job_id, jobs[job_id])]

get_batch_status ==
    /\ running = NoOne
    /\ \E job_id \in PollIds :
        poll' = [job_id |-> job_id, reply |-> get_batch_status_reply(batch_jobs, job_id)]
    /\ UNCHANGED <<models, loadVars, runs, running, clock, next_analysis, batchVars, triggerVars>>
    /\ UNCHANGED replies

(* str(e) of the HTTPException that analyze_document_complete raises. *)
HTTPExceptionStr(reply) == "500: " \o reply.detail

SuccessResult(doc, response) ==
    [document_id |-> Get(doc, "document_id", None), status |-> "success", result |-> response]

FailedResult(doc, e) ==
    [document_id |-> Get(doc, "document_id", None), status |-> "failed", error |-> e]

(* The end of one turn of the loop: the result is appended, processed = idx + 1. *)
(* A turn of the loop that replaces the list of results instead of         *)
(* appending to it.                                                        *)
RecordResultOverwriting(job, result, idx) ==
    [job EXCEPT !.results = <<result>>, !.processed = idx + 1]

RecordResult(job, result, idx) ==
    [job EXCEPT !.results = Append(@, result), !.processed = idx + 1]

JobProcessing(job) == [job EXCEPT !.status = "processing"]

(* An end of the loop that writes a status outside the four. *)
JobCompletedAsDone(job, now) == [job EXCEPT !.status = "done", !.completed_at = {now}]

JobCompleted(job, now) == [job EXCEPT !.status = "completed", !.completed_at = {now}]

(* An outer except clause that leaves the record as it is. *)
JobFailedUnrecorded(job, e) == job

JobFailed(job, e) == [job EXCEPT !.status = "failed", !.error = e]

(* The task starts: _batch_jobs[job_id]["status"] = "processing". *)
ProcessBatchStart(j) ==
    /\ running = NoOne
    /\ tasks[j].pc = "queued"
    /\ batch_jobs' = [batch_jobs EXCEPT ![j] = JobProcessing(@)]
    /\ tasks' = [tasks EXCEPT ![j].pc = "get_models"]
    /\ running' = <<"job", j>>
    /\ UNCHANGED <<models, loadVars, runs, clock, next_job, next_analysis, submitted, triggerVars>>
    /\ poll' = NoPoll
    /\ UNCHANGED replies

(* models = get_models(): an exception of it ends the job as "failed". *)
ProcessBatchGetModels(j) ==
    /\ running = <<"job", j>>
    /\ tasks[j].pc = "get_models"
    /\ \E failAt \in FailPoints(models, singletons) :
        /\ models' = get_models(models, failAt)
        /\ singletons' = SingletonsAfter(models, singletons, failAt)
        /\ instances' = InstancesAfter(singletons, singletons')
        /\ made' = MadeAfter(singletons, singletons')
        /\ constructed' = ConstructedAfter(models, singletons, failAt)
        /\ UNCHANGED <<workers, loads, ner>>
        /\ IF GetModelsRaises(models, failAt)
           THEN /\ batch_jobs' = [batch_jobs EXCEPT ![j] = JobFailed(@, LoadError)]
                /\ tasks' = [tasks EXCEPT ![j].pc = "done"]
                /\ running' = NoOne
           ELSE /\ tasks' = [tasks EXCEPT ![j].pc = "loop"]
                /\ UNCHANGED <<batch_jobs, running>>
    /\ UNCHANGED <<runs, clock, next_job, next_analysis, submitted, triggerVars>>
    /\ poll' = NoPoll
    /\ UNCHANGED replies

(* The head of the loop: the next document is validated and its analysis    *)
(* called; a document that is no valid request is recorded as failed.       *)
ProcessBatchNext(j) ==
    /\ running = <<"job", j>>
    /\ tasks[j].pc = "loop"
    /\ tasks[j].idx < Len(tasks[j].documents)
    /\ LET doc == tasks[j].documents[tasks[j].idx + 1]
       IN  IF ValidDocument(doc)
           THEN /\ runs' = [runs EXCEPT ![<<"job", j>>] =
                               [IdleRun EXCEPT !.pc = "get_models",
                                               !.request = DocumentAnalysisRequest(doc)]]
                /\ tasks' = [tasks EXCEPT ![j].pc = "analysis"]
                /\ UNCHANGED batch_jobs
           ELSE /\ batch_jobs' = [batch_jobs EXCEPT ![j] =
                       RecordResult(@, FailedResult(doc, ValidationError), tasks[j].idx)]
                /\ tasks' = [tasks EXCEPT ![j].idx = @ + 1]
                /\ UNCHANGED runs
    /\ UNCHANGED <<models, loadVars, running, clock, next_job, next_analysis, submitted, triggerVars>>
    /\ poll' = NoPoll
    /\ UNCHANGED replies

(* A loop with no try/except of its own: the exception of one document     *)
(* reaches the handler of the task.                                        *)
AfterDocumentAborting(job, doc, run, idx) ==
    IF run.pc = "returned"
    THEN RecordResult(job, SuccessResult(doc, run.reply.body), idx)
    ELSE JobFailed(job, HTTPExceptionStr(run.reply))

(* The job once analyze_document_complete has returned or raised for doc. *)
AfterDocument(job, doc, run, idx) ==
    IF run.pc = "returned"
    THEN RecordResult(job, SuccessResult(doc, run.reply.body), idx)
    ELSE RecordResult(job, FailedResult(doc, HTTPExceptionStr(run.reply)), idx)

(* analyze_document_complete returned or raised: the result is recorded. *)
ProcessBatchRecord(j) ==
    /\ running = <<"job", j>>
    /\ tasks[j].pc = "analysis"
    /\ runs[<<"job", j>>].pc \in {"returned", "raised"}
    /\ batch_jobs' = [batch_jobs EXCEPT ![j] =
            AfterDocument(@, tasks[j].documents[tasks[j].idx + 1], runs[<<"job", j>>],
                          tasks[j].idx)]
    /\ tasks' = [tasks EXCEPT ![j].pc = "loop", ![j].idx = @ + 1]
    /\ runs' = [runs EXCEPT ![<<"job", j>>] = IdleRun]
    /\ UNCHANGED <<models, loadVars, running, clock, next_job, next_analysis, submitted, triggerVars>>
    /\ poll' = NoPoll
    /\ UNCHANGED replies

(* The loop is over: status "completed", completed_at = utcnow(). *)
ProcessBatchFinish(j) ==
    /\ running = <<"job", j>>
    /\ tasks[j].pc = "loop"
    /\ tasks[j].idx = Len(tasks[j].documents)
    /\ batch_jobs' = [batch_jobs EXCEPT ![j] = JobCompleted(@, clock)]
    /\ clock' = clock + 1
    /\ tasks' = [tasks EXCEPT ![j].pc = "done"]
    /\ running' = NoOne
    /\ UNCHANGED <<models, loadVars, runs, next_job, next_analysis, submitted, triggerVars>>
    /\ poll' = NoPoll
    /\ UNCHANGED replies

process_batch(j) ==
    \/ ProcessBatchStart(j)
    \/ ProcessBatchGetModels(j)
    \/ ProcessBatchNext(j)
    \/ Analyze(<<"job", j>>)
    \/ ProcessBatchRecord(j)
    \/ ProcessBatchFinish(j)

analyze_document_complete(c) ==
    \/ SubmitComplete(c)
    \/ Analyze(c)

(* --------------------------- analysis trigger -------------------------- *)
(* AnalyzeDocumentRequest; an analysis_id of None or "" is not given. *)
TriggerRequests ==
    [analysis_id : {None, "", "a1"},
     document_id : {"d1"},
     document_text : {"t1"},
     analysis_type : {"comprehensive"}]

(* hash(request.document_text[:100]) % 10000: some value of 0..9999. *)
HashValues == {0, HashModulus - 1}

AnalysisIdOf(request, h) ==
    IF request.analysis_id # None /\ request.analysis_id # ""
    THEN request.analysis_id
    ELSE "analysis_" \o request.document_id \o "_" \o ToString(h)

(* The order in which get_models of routes_analysis_trigger builds its dict. *)
TriggerLoadOrder == <<"classifier", "ner", "risk", "summarizer">>

TriggerNoFailure == Len(TriggerLoadOrder) + 1

TriggerFailPoints(loaded, s) ==
    IF loaded THEN {TriggerNoFailure}
    ELSE {i \in 1..TriggerNoFailure :
            i <= Len(TriggerLoadOrder) =>
                ~(TriggerLoadOrder[i] = "risk" /\ s["risk_scorer"])}

TriggerGetModelsRaises(loaded, failAt) == ~loaded /\ failAt <= Len(TriggerLoadOrder)

(* _models is assigned only once every constructor has returned. *)
trigger_get_models(loaded, failAt) == loaded \/ failAt = TriggerNoFailure

(* Every constructor of the dict display that returned, kept or not. *)
TriggerConstructedAfter(loaded, s, failAt) ==
    IF loaded THEN constructed
    ELSE [constructed EXCEPT !["analysis_trigger"] =
            [k \in ModelNames |->
                IF \E i \in 1..Len(TriggerLoadOrder) :
                      /\ TriggerLoadOrder[i] = k
                      /\ i < failAt
                      /\ ~(k = "risk" /\ s["risk_scorer"])
                THEN @[k] + 1 ELSE @[k]]]

TriggerSingletonsAfter(loaded, s, failAt) ==
    IF loaded THEN s
    ELSE [s EXCEPT !["risk_scorer"] = @ \/ failAt > 3]

AllLoaded == [k \in ModelNames |-> TRUE]

(* What goes to the backend, and the model calls, in the order they happen. *)
StatusUpdate(analysis_id, status, progress) ==
    [kind |-> "status", analysis_id |-> analysis_id,
     json |-> [status |-> status, progress |-> progress]]

ResultPost(payload) == [kind |-> "result", json |-> payload]

ModelCall(name, ok) == [kind |-> "call", model |-> name, ok |-> ok]

CompletedPayload(task, results) ==
    [analysis_id |-> task.analysis_id,
     document_id |-> task.document_id,
     status |-> "completed",
     results |-> results,
     timestamp |-> "2025-10-26T10:00:00Z",
     analysis_type |-> "comprehensive"]

FailedPayload(task, e) ==
    [analysis_id |-> task.analysis_id,
     document_id |-> task.document_id,
     status |-> "failed",
     error |-> e,
     timestamp |-> "2025-10-26T10:00:00Z",
     analysis_type |-> "comprehensive"]

(* An except clause that reports the failure as a status update only. *)
TriggerFailedAsStatus(task, e) ==
    [task EXCEPT !.pc = "await_failed",
                 !.log = Append(@, StatusUpdate(task.analysis_id, "failed", 0))]

(* The except clause of process_document_analysis: the failed result is sent. *)
TriggerFailed(task, e) ==
    [task EXCEPT !.pc = "await_failed",
                 !.log = Append(@, ResultPost(FailedPayload(task, e)))]

(* A progress update that repeats 50 where 75 is due. *)
SendProgressRepeating(task, progress, pc) ==
    [task EXCEPT !.pc = pc,
                 !.log = Append(@, StatusUpdate(task.analysis_id, "processing",
                                                IF progress = 75 THEN 50 ELSE progress))]

(* await backend.update_analysis_status(analysis_id, "processing", progress) *)
SendProgress(task, progress, pc) ==
    [task EXCEPT !.pc = pc,
                 !.log = Append(@, StatusUpdate(task.analysis_id, "processing", progress))]

Min(a, b) == IF a < b THEN a ELSE b

TopClauses(classifications, n) == SubSeq(classifications, 1, Min(n, Len(classifications)))

ScoredRisk(clause, risk) ==
    [clause |-> clause.paragraph,
     type |-> clause.label,
     risk_score |-> Get(risk, "risk_score", 0),
     risk_level |-> Get(risk, "risk_level", "UNKNOWN"),
     confidence |-> Get(risk, "confidence", 0)]

ErrorRisk(clause) ==
    [clause |-> clause.paragraph,
     type |-> clause.label,
     risk_score |-> 0,
     risk_level |-> "ERROR",
     confidence |-> 0]

(* The loop over classifications[:5]: outs[i] is what score_clause did. *)
RiskScores(classifications, outs) ==
    LET top == TopClauses(classifications, TriggerRiskClauses)
    IN  [i \in 1..Len(top) |->
            IF outs[i].ok THEN ScoredRisk(top[i], outs[i].value) ELSE ErrorRisk(top[i])]

(* overall_risk, as the fraction num / den. *)
OverallRisk(risk_scores) ==
    IF Len(risk_scores) > 0
    THEN [num |-> SumSeq([i \in 1..Len(risk_scores) |-> risk_scores[i].risk_score]),
          den |-> Len(risk_scores)]
    ELSE [num |-> 0, den |-> 1]

(* "high" if overall_risk > 0.7 else "medium" if overall_risk > 0.4 else "low" *)
OverallRiskLevel(overall) ==
    IF 10 * overall.num > 7 * overall.den THEN "high"
    ELSE IF 10 * overall.num > 4 * overall.den THEN "medium"
    ELSE "low"

TriggerResults(task) ==
    LET overall == OverallRisk(task.risk_scores)
    IN  [entities |-> task.entities,
         classification |->
            [document_type |-> IF Len(task.classifications) > 0
                               THEN task.classifications[1].label ELSE "Unknown",
             confidence |-> IF Len(task.classifications) > 0
                            THEN task.classifications[1].score ELSE 0,
             clauses |-> TopClauses(task.classifications, TriggerResultClauses)],
         risk_assessment |->
            [risk_score |-> overall,
             risk_level |-> OverallRiskLevel(overall),
             risk_factors |-> task.risk_scores],
         summary |-> task.summary,
         qa_results |-> <<>>]

(* The task resumes from await backend.update_analysis_status(...): what   *)
(* the call gave ("True", "False", or "raised") is kept; the task does not *)
(* look at it.                                                             *)
Resumed(task, net) ==
    [task EXCEPT !.updated = IF update_analysis_status(net).raised THEN "raised"
                             ELSE IF update_analysis_status(net).value THEN "True"
                             ELSE "False"]

TriggerStep(t, task) ==
    /\ triggers' = [triggers EXCEPT ![t] = task]
    /\ UNCHANGED <<models, runs, running, clock, next_analysis, batchVars>>
    /\ poll' = NoPoll
    /\ UNCHANGED replies

(* POST /document/analyze: the task is queued and "queued" is answered. *)
analyze_document(t) ==
    /\ running = NoOne
    /\ triggers[t].pc = "none"
    /\ \E request \in TriggerRequests, h \in HashValues :
        LET analysis_id == AnalysisIdOf(request, h)
        IN  TriggerStep(t, [NoTrigger EXCEPT
                !.pc = "queued",
                !.analysis_id = analysis_id,
                !.document_id = request.document_id,
                !.document_text = request.document_text,
                !.reply = [code |-> 200,
                           body |-> [analysis_id |-> analysis_id, status |-> "queued",
                                     message |-> "Analysis started successfully"]]])
    /\ UNCHANGED <<trigger_models, loadVars>>

(* The task starts: status "processing", progress 10. *)
TriggerStart(t) ==
    /\ running = NoOne
    /\ triggers[t].pc = "queued"
    /\ TriggerStep(t, SendProgress(triggers[t], 10, "await10"))
    /\ UNCHANGED <<trigger_models, loadVars>>

(* models = get_models(); entities = models["ner"].predict(...); progress 25. *)
TriggerExtract(t) ==
    /\ running = NoOne
    /\ triggers[t].pc = "await10"
    /\ \E net \in NetOutcomes :
        IF update_analysis_status(net).raised
        THEN /\ TriggerStep(t, TriggerFailed(Resumed(triggers[t], net),
                                             update_analysis_status(net).error))
             /\ UNCHANGED <<trigger_models, loadVars>>
        ELSE \E failAt \in TriggerFailPoints(trigger_models, singletons) :
            /\ trigger_models' = trigger_get_models(trigger_models, failAt)
            /\ singletons' = TriggerSingletonsAfter(trigger_models, singletons, failAt)
            /\ instances' = InstancesAfter(singletons, singletons')
            /\ made' = MadeAfter(singletons, singletons')
            /\ constructed' = TriggerConstructedAfter(trigger_models, singletons, failAt)
            /\ UNCHANGED <<workers, loads, ner>>
            /\ IF TriggerGetModelsRaises(trigger_models, failAt)
               THEN TriggerStep(t, TriggerFailed(Resumed(triggers[t], net), LoadError))
               ELSE \E out \in CallOutcomes(AllLoaded, "ner", EntityLists) :
                    LET called == [Resumed(triggers[t], net) EXCEPT
                                  !.log = Append(@, ModelCall("ner", out.ok))]
                    IN  IF ~out.ok
                        THEN TriggerStep(t, TriggerFailed(called, out.error))
                        ELSE TriggerStep(t, SendProgress(
                                [called EXCEPT !.entities = out.value], 25, "await25"))

(* classifications = models["classifier"].predict(...); progress 50. *)
TriggerClassify(t) ==
    /\ running = NoOne
    /\ triggers[t].pc = "await25"
    /\ \E net \in NetOutcomes :
        IF update_analysis_status(net).raised
        THEN TriggerStep(t, TriggerFailed(Resumed(triggers[t], net),
                                          update_analysis_status(net).error))
        ELSE \E out \in CallOutcomes(AllLoaded, "classifier", ClauseLists) :
            LET called == [Resumed(triggers[t], net) EXCEPT
                                  !.log = Append(@, ModelCall("classifier", out.ok))]
            IN  IF ~out.ok
                THEN TriggerStep(t, TriggerFailed(called, out.error))
                ELSE TriggerStep(t, SendProgress(
                        [called EXCEPT !.classifications = out.value], 50, "await50"))
    /\ UNCHANGED <<trigger_models, loadVars>>

(* The risk loop over the top clauses, overall_risk; progress 75. *)
TriggerRisk(t) ==
    /\ running = NoOne
    /\ triggers[t].pc = "await50"
    /\ \E net \in NetOutcomes :
        IF update_analysis_status(net).raised
        THEN TriggerStep(t, TriggerFailed(Resumed(triggers[t], net),
                                          update_analysis_status(net).error))
        ELSE LET n == Len(TopClauses(triggers[t].classifications, TriggerRiskClauses))
             IN  \E outs \in [1..n -> CallOutcomes(AllLoaded, "risk", ScorerResults)] :
                    LET called == [Resumed(triggers[t], net) EXCEPT
                            !.log = @ \o [i \in 1..n |-> ModelCall("risk", outs[i].ok)],
                            !.risk_scores = RiskScores(triggers[t].classifications, outs)]
                    IN  TriggerStep(t, SendProgress(called, 75, "await75"))
    /\ UNCHANGED <<trigger_models, loadVars>>

(* summary = models["summarizer"].summarize(..., max_length=200); progress 90. *)
TriggerSummarize(t) ==
    /\ running = NoOne
    /\ triggers[t].pc = "await75"
    /\ \E net \in NetOutcomes :
        IF update_analysis_status(net).raised
        THEN TriggerStep(t, TriggerFailed(Resumed(triggers[t], net),
                                          update_analysis_status(net).error))
        ELSE \E out \in CallOutcomes(AllLoaded, "summarizer", Summaries) :
            LET called == [Resumed(triggers[t], net) EXCEPT
                                  !.log = Append(@, ModelCall("summarizer", out.ok))]
            IN  IF ~out.ok
                THEN TriggerStep(t, TriggerFailed(called, out.error))
                ELSE TriggerStep(t, SendProgress(
                        [called EXCEPT !.summary = out.value], 90, "await90"))
    /\ UNCHANGED <<trigger_models, loadVars>>

(* The results are put together and sent with status "completed". *)
TriggerSendResult(t) ==
    /\ running = NoOne
    /\ triggers[t].pc = "await90"
    /\ \E net \in NetOutcomes :
        IF update_analysis_status(net).raised
        THEN TriggerStep(t, TriggerFailed(Resumed(triggers[t], net),
                                          update_analysis_status(net).error))
        ELSE TriggerStep(t, [Resumed(triggers[t], net) EXCEPT
                !.pc = "await_result",
                !.log = Append(@, ResultPost(
                            CompletedPayload(triggers[t], TriggerResults(triggers[t]))))])
    /\ UNCHANGED <<trigger_models, loadVars>>

(* The POST of the completed result ends: the task is over, unless it raised. *)
TriggerFinish(t) ==
    /\ running = NoOne
    /\ triggers[t].pc = "await_result"
    /\ \E net \in NetOutcomes :
        IF send_analysis_result(net).raised
        THEN TriggerStep(t, TriggerFailed(triggers[t], send_analysis_result(net).error))
        ELSE TriggerStep(t, [triggers[t] EXCEPT !.pc = "done"])
    /\ UNCHANGED <<trigger_models, loadVars>>

(* The POST of the failed result ends; an exception of it leaves the task. *)
TriggerFailedSent(t) ==
    /\ running = NoOne
    /\ triggers[t].pc = "await_failed"
    /\ \E net \in NetOutcomes :
        TriggerStep(t, [triggers[t] EXCEPT
            !.pc = IF send_analysis_result(net).raised THEN "crashed" ELSE "done"])
    /\ UNCHANGED <<trigger_models, loadVars>>

process_document_analysis(t) ==
    \/ TriggerStart(t)
    \/ TriggerExtract(t)
    \/ TriggerClassify(t)
    \/ TriggerRisk(t)
    \/ TriggerSummarize(t)
    \/ TriggerSendResult(t)
    \/ TriggerFinish(t)
    \/ TriggerFailedSent(t)

(* ------------------------ routes of one service ------------------------ *)
(* The routes whose function calls a service and returns what it gives,    *)
(* with no try/except around the call; each maps to where its service      *)
(* object comes from: one built when the module is imported, or a          *)
(* get-or-create accessor.                                                 *)
ModuleInstance == "module"

ServiceRoutes ==
    [route \in {"/ner", "/classify", "/summarize",
                "/risk/score", "/risk/score_document",
                "/qa/answer", "/qa/answer_multiple", "/qa/extract", "/qa/ask_clauses",
                "/compare/clauses", "/compare/find_similar", "/compare/documents",
                "/compare/alternatives",
                "/recommendations/improve", "/recommendations/improve_multiple",
                "/recommendations/alternatives", "/recommendations/batch"} |->
        CASE route \in {"/ner", "/classify", "/summarize"} -> ModuleInstance
          [] route \in {"/risk/score", "/risk/score_document"} -> "risk_scorer"
          [] route \in {"/qa/answer", "/qa/answer_multiple", "/qa/extract",
                        "/qa/ask_clauses"} -> "legal_qa"
          [] route \in {"/compare/clauses", "/compare/find_similar", "/compare/documents",
                        "/compare/alternatives"} -> "clause_comparator"
          [] OTHER -> "clause_recommender"]

(* The routes of routes_document_analysis that wrap their body in          *)
(* try/except and raise HTTPException(500, detail=str(e)).                 *)
ClauseRoutes ==
    [route \in {"/analyze/clauses/compare", "/analyze/clauses/improve"} |->
        IF route = "/analyze/clauses/compare" THEN "comparator" ELSE "recommender"]

(* A route of one service that answers with the exception string. *)
UnhandledWithDetail(route, e) ==
    [route |-> route, raised |-> e, code |-> 500, detail |-> e]

(* What the client gets when an exception leaves the route function. *)
Unhandled(route, e) ==
    [route |-> route, raised |-> e, code |-> 500, detail |-> "Internal Server Error"]

(* raise HTTPException(status_code=500, detail=str(e)) *)
Handled(route, e) == [route |-> route, raised |-> e, code |-> 500, detail |-> e]

Returned(route) == [route |-> route, raised |-> None, code |-> 200, detail |-> "OK"]

(* What can leave a call of the service of a route: nothing, the           *)
(* constructor's exception when the accessor has to create the instance,   *)
(* or the exception of the inference.                                      *)
ServiceErrors(accessor, s) ==
    {None, InferenceError}
    \cup IF accessor # ModuleInstance /\ ~s[accessor] THEN {LoadError} ELSE {}

(* A request to a route of one service. *)
service_route ==
    /\ Len(replies) < MaxReplies
    /\ \E route \in DOMAIN ServiceRoutes :
        \E e \in ServiceErrors(ServiceRoutes[route], singletons) :
            /\ replies' = Append(replies, IF e = None THEN Returned(route)
                                          ELSE Unhandled(route, e))
            /\ singletons' = IF ServiceRoutes[route] # ModuleInstance /\ e # LoadError
                             THEN [singletons EXCEPT ![ServiceRoutes[route]] = TRUE]
                             ELSE singletons
    /\ instances' = InstancesAfter(singletons, singletons')
    /\ made' = MadeAfter(singletons, singletons')
    /\ UNCHANGED <<constructed, workers, loads, ner>>
    /\ UNCHANGED <<models, runs, running, clock, next_analysis, poll, batchVars, triggerVars>>

(* POST /analyze/clauses/compare and /analyze/clauses/improve: get_models(), *)
(* then calls of the comparator or the recommender, inside try/except.       *)
clause_route ==
    /\ running = NoOne
    /\ Len(replies) < MaxReplies
    /\ \E route \in DOMAIN ClauseRoutes :
        \E failAt \in FailPoints(models, singletons) :
            /\ models' = get_models(models, failAt)
            /\ singletons' = SingletonsAfter(models, singletons, failAt)
            /\ instances' = InstancesAfter(singletons, singletons')
            /\ made' = MadeAfter(singletons, singletons')
            /\ constructed' = ConstructedAfter(models, singletons, failAt)
            /\ UNCHANGED <<workers, loads, ner>>
            /\ IF GetModelsRaises(models, failAt)
               THEN replies' = Append(replies, Handled(route, LoadError))
               ELSE \E out \in CallOutcomes(models', ClauseRoutes[route], {"result"}) :
                        replies' = Append(replies, IF out.ok THEN Returned(route)
                                                   ELSE Handled(route, out.error))
    /\ UNCHANGED <<runs, running, clock, next_analysis, poll, batchVars, triggerVars>>

(* A call of get_models of either module, by any of its callers: what it *)
(* returned (the names whose entry is not None) or that it raised.        *)
LoadReturned(module, entries) == [module |-> module, raised |-> FALSE, entries |-> entries]
LoadRaised(module) == [module |-> module, raised |-> TRUE, entries |-> {}]

call_get_models ==
    /\ running = NoOne
    /\ Len(loads) < MaxLoads
    /\ \/ \E failAt \in FailPoints(models, singletons) :
            /\ models' = get_models(models, failAt)
            /\ singletons' = SingletonsAfter(models, singletons, failAt)
            /\ constructed' = ConstructedAfter(models, singletons, failAt)
            /\ loads' = Append(loads,
                    IF GetModelsRaises(models, failAt)
                    THEN LoadRaised("document_analysis")
                    ELSE LoadReturned("document_analysis", {k \in ModelNames : models'[k]}))
            /\ UNCHANGED trigger_models
       \/ \E failAt \in TriggerFailPoints(trigger_models, singletons) :
            /\ trigger_models' = trigger_get_models(trigger_models, failAt)
            /\ singletons' = TriggerSingletonsAfter(trigger_models, singletons, failAt)
            /\ constructed' = TriggerConstructedAfter(trigger_models, singletons, failAt)
            /\ loads' = Append(loads,
                    IF TriggerGetModelsRaises(trigger_models, failAt)
                    THEN LoadRaised("analysis_trigger")
                    ELSE LoadReturned("analysis_trigger",
                                      {TriggerLoadOrder[i] : i \in 1..Len(TriggerLoadOrder)}))
            /\ UNCHANGED models
    /\ instances' = InstancesAfter(singletons, singletons')
    /\ made' = MadeAfter(singletons, singletons')
    /\ UNCHANGED <<workers, ner, runs, running, clock, next_analysis, poll, replies,
                   batchVars, triggers>>

(* The batch routes and the background task of each job. *)
Next ==
    \/ analyze_batch
    \/ get_batch_status
    \/ \E j \in JobIds : process_batch(j)

Spec == Init /\ [][Next]_vars

(* The event loop runs every task that is ready: a background task whose   *)
(* next step can be taken takes it, and an awaited call returns or raises. *)
BatchFairness == \A j \in JobIds : WF_vars(process_batch(j))

SpecFair == Spec /\ BatchFairness

(* POST /analyze/complete, called directly. *)
NextComplete == \E c \in ReqCallers : analyze_document_complete(c)

SpecComplete == Init /\ [][NextComplete]_vars

(* POST /document/analyze and its background task. *)
NextTrigger ==
    \E t \in TriggerIds : analyze_document(t) \/ process_document_analysis(t)

SpecTrigger == Init /\ [][NextTrigger]_vars

(* The routes of one service, the clause routes and one POST /analyze/complete. *)
NextRoutes ==
    \/ service_route
    \/ clause_route
    \/ analyze_document_complete(<<"req", 1>>)

SpecRoutes == Init /\ [][NextRoutes]_vars

(* POST /analyze/complete called directly and one triggered analysis. *)
NextCombined ==
    \/ analyze_document_complete(<<"req", 1>>)
    \/ analyze_document(1)
    \/ process_document_analysis(1)

SpecCombined == Init /\ [][NextCombined]_vars

(* ---------------------------- LegalNER.predict -------------------------- *)
(* A text is a sequence of characters. Those of the model are a letter,    *)
(* the space and the newline: lower(), and the removal of punctuation at   *)
(* the ends of an entity, leave such a text as it is.                      *)
Chars == {"a", " ", "\n"}
IsSpace(ch) == ch \in {" ", "\n"}
Texts == UNION {[1..n -> Chars] : n \in 0..MaxTextLen}

Max(a, b) == IF a < b THEN b ELSE a

(* text[s:e], for 0 <= s *)
Slice(text, s, e) == SubSeq(text, s + 1, Min(e, Len(text)))

(* str.split(): the maximal runs of characters that are not whitespace. *)
RECURSIVE SplitFrom(_, _)
SplitFrom(text, word) ==
    IF text = <<>> THEN (IF word = <<>> THEN <<>> ELSE <<word>>)
    ELSE IF IsSpace(Head(text))
         THEN (IF word = <<>> THEN <<>> ELSE <<word>>) \o SplitFrom(Tail(text), <<>>)
         ELSE SplitFrom(Tail(text), Append(word, Head(text)))

split(text) == SplitFrom(text, <<>>)

(* " ".join(words) *)
RECURSIVE join(_)
join(words) ==
    IF words = <<>> THEN <<>>
    ELSE IF Len(words) = 1 THEN words[1]
    ELSE words[1] \o <<" ">> \o join(Tail(words))

(* str.strip() *)
RECURSIVE lstrip(_)
lstrip(text) ==
    IF text # <<>> /\ IsSpace(Head(text)) THEN lstrip(Tail(text)) ELSE text

RECURSIVE rstrip(_)
rstrip(text) ==
    IF text # <<>> /\ IsSpace(text[Len(text)])
    THEN rstrip(SubSeq(text, 1, Len(text) - 1)) ELSE text

strip(text) == rstrip(lstrip(text))

(* predict: the loop that cuts the words of the text into chunks. *)
RECURSIVE ChunksFrom(_, _, _)
ChunksFrom(words, current_chunk, current_length) ==
    IF words = <<>>
    THEN (IF current_chunk # <<>> THEN <<join(current_chunk)>> ELSE <<>>)
    ELSE LET word == Head(words)
         IN  IF current_length + Len(word) > NerMaxLength * NerChunkFactor
             THEN <<join(current_chunk)>> \o ChunksFrom(Tail(words), <<word>>, Len(word))
             ELSE ChunksFrom(Tail(words), Append(current_chunk, word),
                             current_length + Len(word) + 1)

(* chunks[:3] *)
Chunks(text) ==
    LET chunks == ChunksFrom(split(text), <<>>, 0)
    IN  SubSeq(chunks, 1, Min(Len(chunks), NerMaxChunks))

(* The offset_mapping of the tokenizer for a chunk, one token for each     *)
(* word: where the token starts and ends in the chunk.                     *)
RECURSIVE SpansFrom(_, _)
SpansFrom(words, at) ==
    IF words = <<>> THEN <<>>
    ELSE <<[s |-> at, e |-> at + Len(Head(words))]>>
         \o SpansFrom(Tail(words), at + Len(Head(words)) + 1)

offset_mapping(chunk) == SpansFrom(split(chunk), 0)

(* What the model gives for a token: its label and the score of the label. *)
NerLabels == {"O", "B-PER", "I-PER", "I-ORG"}
NerScores == {50, 90}
TokenOutputs == [label : NerLabels, score : NerScores]

(* The model outputs a chunk can get: one for each of its tokens. *)
ChunkOutputs(chunk) == [1..Len(offset_mapping(chunk)) -> TokenOutputs]

(* predict: the entities of one chunk, at the running offset. *)
RECURSIVE RawOfChunk(_, _, _, _)
RawOfChunk(chunk, outputs, offset, i) ==
    IF i > Len(outputs) THEN <<>>
    ELSE LET span == offset_mapping(chunk)[i]
             rest == RawOfChunk(chunk, outputs, offset, i + 1)
         IN  IF outputs[i].label = "O" \/ ~(span.e > span.s) THEN rest
             ELSE <<[label |-> outputs[i].label,
                     start |-> span.s + offset,
                     end |-> span.e + offset,
                     text |-> Slice(chunk, span.s, span.e),
                     score |-> outputs[i].score]>> \o rest

(* predict: the loop over the chunks; offset += len(chunk) + 1. *)
RECURSIVE entities_raw(_, _, _)
entities_raw(chunks, outputs, offset) ==
    IF chunks = <<>> THEN <<>>
    ELSE RawOfChunk(Head(chunks), Head(outputs), offset, 1)
         \o entities_raw(Tail(chunks), Tail(outputs), offset + Len(Head(chunks)) + 1)

(* The tokens of all chunks with the offsets predict gives them and the    *)
(* outputs of the model, the non-entity tokens included.                   *)
RECURSIVE TokensOf(_, _, _)
TokensOf(chunks, outputs, offset) ==
    IF chunks = <<>> THEN <<>>
    ELSE LET chunk == Head(chunks)
             spans == offset_mapping(chunk)
         IN  [i \in 1..Len(spans) |->
                [label |-> Head(outputs)[i].label,
                 start |-> spans[i].s + offset,
                 end |-> spans[i].e + offset,
                 text |-> Slice(chunk, spans[i].s, spans[i].e)]]
             \o TokensOf(Tail(chunks), Tail(outputs), offset + Len(chunk) + 1)

(* entity_label[2:] for a B- or I- label *)
HasPrefix(label, prefix) ==
    \E base \in {"PER", "ORG"} : label = prefix \o base

base_label(label) ==
    IF HasPrefix(label, "B-") \/ HasPrefix(label, "I-")
    THEN CHOOSE base \in {"PER", "ORG"} : label \in {"B-" \o base, "I-" \o base}
    ELSE label

(* LegalNER._merge_subword_entities: current is {} for None. *)
RECURSIVE MergeFrom(_, _, _, _)
MergeFrom(entities, text, merged, current) ==
    IF entities = <<>>
    THEN (IF current # {} THEN Append(merged, Value(current)) ELSE merged)
    ELSE LET entity == Head(entities)
             base == base_label(entity.label)
         IN  IF /\ current # {}
                /\ HasPrefix(entity.label, "I-")
                /\ base = Value(current).base_label
             THEN MergeFrom(Tail(entities), text, merged,
                    {[Value(current) EXCEPT
                        !.end = entity.end,
                        !.text = Slice(text, Value(current).start, entity.end),
                        !.score = Max(@, entity.score)]})
             ELSE MergeFrom(Tail(entities), text,
                    IF current # {} THEN Append(merged, Value(current)) ELSE merged,
                    {[text |-> entity.text, type |-> base, base_label |-> base,
                      start |-> entity.start, end |-> entity.end,
                      score |-> entity.score]})

merge_subword_entities(entities, text) ==
    IF entities = <<>> THEN <<>> ELSE MergeFrom(entities, text, <<>>, {})

(* self.type_mapping, for the labels of the model *)
type_mapping(entity_type) ==
    CASE entity_type = "PER" -> "PERSON"
      [] entity_type = "ORG" -> "ORGANIZATION"
      [] OTHER -> entity_type

(* LegalNER._clean_entity_text *)
clean_entity_text(text) == strip(text)

(* LegalNER._is_valid_entity: two characters or more, a letter among them; *)
(* no stopword and no number is that long over the characters modelled.    *)
is_valid_entity(text, entity_type) ==
    /\ Len(strip(text)) >= MinEntityLength
    /\ \E i \in 1..Len(text) : text[i] = "a"

(* LegalNER._get_context *)
get_context(text, start, end) ==
    LET context_start == Max(0, start - ContextWindow)
        context_end == Min(Len(text), end + ContextWindow)
        context == strip(Slice(text, context_start, context_end))
        left == IF context_start > 0 THEN <<".", ".", ".">> \o context ELSE context
    IN  IF context_end < Len(text) THEN left \o <<".", ".", ".">> ELSE left

(* predict: the loop that cleans, validates and de-duplicates. *)
RECURSIVE FilterFrom(_, _, _)
FilterFrom(entities, text, seen_texts) ==
    IF entities = <<>> THEN <<>>
    ELSE LET entity == Head(entities)
             entity_type == type_mapping(entity.type)
             entity_text == clean_entity_text(entity.text)
         IN  IF ~is_valid_entity(entity_text, entity_type) \/ entity_text \in seen_texts
             THEN FilterFrom(Tail(entities), text, seen_texts)
             ELSE <<[text |-> entity_text, type |-> entity_type, score |-> entity.score,
                     context |-> get_context(text, entity.start, entity.end)]>>
                  \o FilterFrom(Tail(entities), text, seen_texts \cup {entity_text})

(* out.sort(key=score, reverse=True): stable, highest score first. *)
RECURSIVE InsertByScore(_, _)
InsertByScore(sorted, entry) ==
    IF sorted = <<>> THEN <<entry>>
    ELSE IF Head(sorted).score >= entry.score
         THEN <<Head(sorted)>> \o InsertByScore(Tail(sorted), entry)
         ELSE <<entry>> \o sorted

RECURSIVE SortByScore(_)
SortByScore(out) ==
    IF out = <<>> THEN <<>>
    ELSE InsertByScore(SortByScore(SubSeq(out, 1, Len(out) - 1)), out[Len(out)])

(* One call of LegalNER.predict, in the three stages of its body. *)
NerStep(next) ==
    /\ ner' = next
    /\ UNCHANGED <<models, singletons, instances, made, constructed, workers, loads,
                   runs, running, clock, next_analysis, poll, replies, batchVars,
                   triggerVars>>

(* The chunks are cut and labelled: entities_raw. *)
NerLabel ==
    /\ ner.pc = "idle"
    /\ \E text \in Texts :
        \E outputs \in [1..Len(Chunks(text)) ->
                            UNION {ChunkOutputs(Chunks(text)[k]) : k \in 1..Len(Chunks(text))}] :
            /\ \A k \in 1..Len(outputs) : outputs[k] \in ChunkOutputs(Chunks(text)[k])
            /\ NerStep([IdleNer EXCEPT
                        !.pc = "labelled",
                        !.text = text,
                        !.tokens = TokensOf(Chunks(text), outputs, 0),
                        !.entities_raw = entities_raw(Chunks(text), outputs, 0)])

(* merged_entities = self._merge_subword_entities(entities_raw, text) *)
NerMerge ==
    /\ ner.pc = "labelled"
    /\ NerStep([ner EXCEPT
                !.pc = "merged",
                !.merged_entities = merge_subword_entities(ner.entities_raw, ner.text)])

(* The entities are cleaned, filtered and sorted: return out[:50]. *)
NerReturn ==
    /\ ner.pc = "merged"
    /\ LET out == SortByScore(FilterFrom(ner.merged_entities, ner.text, {}))
       IN  NerStep([ner EXCEPT
                !.pc = "returned",
                !.out = SubSeq(out, 1, Min(Len(out), NerTopEntities))])

predict ==
    \/ NerLabel
    \/ NerMerge
    \/ NerReturn

(* ------------------------- the risk routes ----------------------------- *)
RiskReply(route, outputs, body) ==
    [route |-> route, raised |-> None, code |-> 200, detail |-> "OK",
     outputs |-> outputs, body |-> body]

(* scorer = get_risk_scorer(), atomically: the constructor raises, or the  *)
(* instance exists after it.                                               *)
RiskScorerLoaded ==
    /\ singletons' = [singletons EXCEPT !["risk_scorer"] = TRUE]
    /\ instances' = InstancesAfter(singletons, singletons')
    /\ made' = MadeAfter(singletons, singletons')

RiskRouteStep(reply) ==
    /\ replies' = Append(replies, reply)
    /\ UNCHANGED <<models, constructed, workers, loads, ner, runs, running, clock,
                   next_analysis, poll, batchVars, triggerVars>>

(* A risk route whose accessor or model raises: nothing catches it. *)
risk_route_raises ==
    /\ Len(replies) < MaxReplies
    /\ \E route \in {"/risk/score", "/risk/score_document"} :
        \/ /\ ~singletons["risk_scorer"]
           /\ RiskRouteStep(Unhandled(route, LoadError))
           /\ UNCHANGED <<singletons, instances, made>>
        \/ /\ RiskRouteStep(Unhandled(route, InferenceError))
           /\ RiskScorerLoaded

(* POST /risk/score *)
score_risk ==
    /\ Len(replies) < MaxReplies
    /\ \E probs \in Logits :
        RiskRouteStep(RiskReply("/risk/score", <<probs>>, score_clause(argmax(probs))))
    /\ RiskScorerLoaded

(* POST /risk/score_document *)
score_document_risk ==
    /\ Len(replies) < MaxReplies
    /\ \E n \in 0..MaxScored :
        \E clauses \in [1..n -> RiskClauseDicts], outputs \in [1..n -> Logits] :
            RiskRouteStep(RiskReply("/risk/score_document", Scored(clauses, outputs),
                                    score_document(clauses, outputs)))
    /\ RiskScorerLoaded

(* ------------- the accessors called from the sync routes -------------- *)
(* A route declared with def runs on a threadpool thread; the statements   *)
(* of the accessor it calls interleave with those of the other threads.    *)
WorkerStep(w, next) ==
    /\ workers' = [workers EXCEPT ![w] = next]
    /\ UNCHANGED <<models, constructed, loads, ner, runs, running, clock, next_analysis,
                   poll, replies, batchVars, triggerVars>>

(* scorer = get_risk_scorer(), and the like: the call is made. *)
WorkerEnter(w) ==
    /\ workers[w].pc \in {"idle", "returned"}
    /\ \E n \in SingletonNames :
        WorkerStep(w, [pc |-> "check", accessor |-> n, local |-> 0, got |-> 0])
    /\ UNCHANGED <<singletons, instances, made>>

(* if _scorer_instance is None: *)
WorkerCheck(w) ==
    /\ workers[w].pc = "check"
    /\ WorkerStep(w, [workers[w] EXCEPT
            !.pc = IF instances[workers[w].accessor] = 0 THEN "construct" ELSE "return"])
    /\ UNCHANGED <<singletons, instances, made>>

(* RiskScorer(): a new instance, or the constructor raises and the         *)
(* exception leaves the route.                                             *)
WorkerConstruct(w) ==
    /\ workers[w].pc = "construct"
    /\ \/ /\ WorkerStep(w, [workers[w] EXCEPT
                    !.pc = "assign", !.local = made[workers[w].accessor] + 1])
          /\ made' = [made EXCEPT ![workers[w].accessor] = @ + 1]
       \/ /\ WorkerStep(w, IdleWorker)
          /\ UNCHANGED made
    /\ UNCHANGED <<singletons, instances>>

(* _scorer_instance = <the new instance> *)
WorkerAssign(w) ==
    /\ workers[w].pc = "assign"
    /\ instances' = [instances EXCEPT ![workers[w].accessor] = workers[w].local]
    /\ singletons' = [singletons EXCEPT ![workers[w].accessor] = TRUE]
    /\ WorkerStep(w, [workers[w] EXCEPT !.pc = "return"])
    /\ UNCHANGED made

(* return _scorer_instance *)
WorkerReturn(w) ==
    /\ workers[w].pc = "return"
    /\ WorkerStep(w, [workers[w] EXCEPT
            !.pc = "returned", !.got = instances[workers[w].accessor]])
    /\ UNCHANGED <<singletons, instances, made>>

get_or_create(w) ==
    \/ WorkerEnter(w)
    \/ WorkerCheck(w)
    \/ WorkerConstruct(w)
    \/ WorkerAssign(w)
    \/ WorkerReturn(w)

(* The get_models calls of the two route modules. *)
NextModels == call_get_models

SpecModels == Init /\ [][NextModels]_vars

(* LegalNER.predict on its own. *)
NextNer == predict

SpecNer == Init /\ [][NextNer]_vars

(* The routes of the risk scorer. *)
NextRisk ==
    \/ score_risk
    \/ score_document_risk
    \/ risk_route_raises

SpecRisk == Init /\ [][NextRisk]_vars

(* The sync routes of the services, each on its own thread. *)
NextAccessors == \E w \in ThreadIds : get_or_create(w)

SpecAccessors == Init /\ [][NextAccessors]_vars

(* ======================= properties of the batch jobs ================== *)
JobStatuses == {"queued", "processing", "completed", "failed"}

Forward ==
    {<<"queued", "processing">>, <<"processing", "completed">>, <<"processing", "failed">>}

(* C1: the status of a batch job is always one of queued, processing,      *)
(* completed, failed; a job is created as queued, and every change of its  *)
(* status is queued -> processing, processing -> completed or              *)
(* processing -> failed, so that completed and failed never change again.  *)
C1_StatusForward ==
    [][\A j \in DOMAIN batch_jobs' :
          /\ batch_jobs'[j].status \in JobStatuses
          /\ IF j \in DOMAIN batch_jobs
             THEN \/ batch_jobs'[j].status = batch_jobs[j].status
                  \/ <<batch_jobs[j].status, batch_jobs'[j].status>> \in Forward
             ELSE batch_jobs'[j].status = "queued"]_vars

(* One job has ended completed and another failed. *)
C1_Witness ==
    \E j, k \in DOMAIN batch_jobs :
        /\ batch_jobs[j].status = "completed"
        /\ batch_jobs[k].status = "failed"

(* The error strings a failed result of a batch can carry. *)
BatchErrors ==
    {ValidationError}
    \cup {"500: Analysis failed: " \o e : e \in {InferenceError, LoadError, NoneTypeError}}

C2_Results ==
    \A j \in DOMAIN batch_jobs :
        LET job == batch_jobs[j]
            docs == tasks[j].documents
        IN  /\ Len(job.results) = job.processed
            /\ job.processed = tasks[j].idx
            /\ \A i \in 1..Len(job.results) :
                LET r == job.results[i]
                IN  /\ r.document_id = Get(docs[i], "document_id", None)
                    /\ r.status \in {"success", "failed"}
                    /\ r.status = "failed" => r.error \in BatchErrors
                    /\ ~ValidDocument(docs[i]) =>
                            r.status = "failed" /\ r.error = ValidationError
            /\ job.processed > 0 => job.status \in {"processing", "completed"}
            /\ tasks[j].pc = "done" /\ job.status # "failed" =>
                    job.status = "completed" /\ job.processed = Len(docs)
            /\ job.status = "completed" => Len(job.results) = job.total_documents

C2_Raised ==
    \A j \in DOMAIN batch_jobs :
        LET run == runs[<<"job", j>>]
            doc == tasks[j].documents[tasks[j].idx + 1]
        IN  tasks[j].pc = "analysis" /\ run.pc = "raised" /\ tasks'[j] # tasks[j] =>
                /\ tasks'[j].pc = "loop"
                /\ batch_jobs'[j].status = "processing"
                /\ batch_jobs'[j].results =
                      Append(batch_jobs[j].results,
                             [document_id |-> Get(doc, "document_id", None),
                              status |-> "failed",
                              error |-> "500: " \o run.reply.detail])

(* C2: in process_batch every document gets one result entry, in order; a  *)
(* document whose analysis raised, or that is no valid request, gets one   *)
(* entry of status "failed" with the error string; the loop goes on to the *)
(* next document, and the job ends "completed" with an entry for every     *)
(* document, whatever number of them failed.                               *)
C2_FailedDocumentRecorded == []C2_Results /\ [][C2_Raised]_vars

(* A completed job of two documents: the analysis of the first raised, the *)
(* second was analysed all the same.                                       *)
C2_Witness ==
    \E j \in DOMAIN batch_jobs :
        /\ batch_jobs[j].status = "completed"
        /\ batch_jobs[j].processed = 2
        /\ batch_jobs[j].results[1].status = "failed"
        /\ batch_jobs[j].results[1].error # ValidationError
        /\ batch_jobs[j].results[2].status = "success"

C3_Reply ==
    poll # NoPoll =>
        /\ poll.reply.code = 404 <=> poll.job_id \notin DOMAIN submitted
        /\ poll.reply.code = 404 => poll.reply.detail = "Job not found"
        /\ poll.reply.code # 404 =>
            /\ poll.reply.code = 200
            /\ poll.reply.body.job_id = poll.job_id
            /\ poll.reply.body.status = batch_jobs[poll.job_id].status
            /\ poll.reply.body.total_documents = batch_jobs[poll.job_id].total_documents
            /\ poll.reply.body.processed = batch_jobs[poll.job_id].processed
            /\ poll.reply.body.results = batch_jobs[poll.job_id].results
            /\ poll.reply.body.started_at = batch_jobs[poll.job_id].started_at
            /\ poll.reply.body.completed_at = batch_jobs[poll.job_id].completed_at

C3_ReadOnly == poll' # NoPoll => batch_jobs' = batch_jobs /\ tasks' = tasks

(* C3: GET /analyze/batch/{job_id} answers 404 "Job not found" exactly     *)
(* when analyze_batch never returned the id; otherwise it answers the      *)
(* stored status, total_documents, processed, results, started_at and      *)
(* completed_at of the job; and it leaves the store as it was.             *)
C3_PollReadsStore == []C3_Reply /\ [][C3_ReadOnly]_vars

(* A poll in the middle of a job: one document recorded, one under way. *)
C3_Witness ==
    /\ poll # NoPoll
    /\ poll.reply.code = 200
    /\ poll.reply.body.status = "processing"
    /\ poll.reply.body.processed = 1
    /\ poll.reply.body.total_documents = 2

C4_Pollable ==
    /\ DOMAIN submitted \subseteq DOMAIN batch_jobs
    /\ poll # NoPoll /\ poll.job_id \in DOMAIN submitted => poll.reply.code # 404

C4_Grows ==
    /\ DOMAIN batch_jobs \subseteq DOMAIN batch_jobs'
    /\ DOMAIN submitted \subseteq DOMAIN submitted'

(* C4: no job record is ever removed: the set of known job ids only grows, *)
(* and an id that analyze_batch returned is never answered with 404.       *)
C4_JobsNeverEvicted == []C4_Pollable /\ [][C4_Grows]_vars

(* The first job is polled after the second one has been submitted and     *)
(* both have ended.                                                        *)
C4_Witness ==
    /\ DOMAIN batch_jobs = 1..2
    /\ \A j \in 1..2 : tasks[j].pc = "done"
    /\ poll.job_id = 1
    /\ poll.reply.code = 200


(* ===================== properties of /analyze/complete ================= *)
QuestionsOf(request) ==
    IF IsNone(request.questions) THEN <<>> ELSE Value(request.questions)

(* The model calls of a whole analysis, given what the classifier returned. *)
ExpectedCalls(run) ==
    <<[model |-> "classifier", arg |-> run.request.text],
      [model |-> "ner", arg |-> run.request.text]>>
    \o [i \in 1..Len(run.classifications) |->
            [model |-> "risk", arg |-> run.classifications[i].paragraph]]
    \o <<[model |-> "summarizer", arg |-> SummaryMaxLength(run.request)]>>
    \o [i \in 1..Len(QuestionsOf(run.request)) |->
            [model |-> "qa", arg |-> QuestionsOf(run.request)[i]]]

AnalysisErrors == {LoadError, InferenceError, NoneTypeError}

(* C6, as stated: every route answers an exception with HTTP 500 whose     *)
(* detail is the exception string.                                         *)
C6_Uniform500 ==
    /\ \A i \in 1..Len(replies) :
        replies[i].raised # None =>
            replies[i].code = 500 /\ replies[i].detail = replies[i].raised
    /\ \A c \in ReqCallers :
        runs[c].pc = "raised" =>
            runs[c].reply.code = 500 /\ runs[c].reply.detail \in AnalysisErrors

(* C6, amended: the routes whose body is in try/except answer HTTP 500     *)
(* with the exception string as detail (/analyze/clauses/compare and       *)
(* /analyze/clauses/improve) or with "Analysis failed: " before it         *)
(* (/analyze/complete); the routes of one service catch nothing: the       *)
(* exception leaves the route function and the answer is the framework's   *)
(* 500, which does not carry the exception string.                         *)
C6_HandledWhereCaught ==
    /\ \A i \in 1..Len(replies) :
        replies[i].raised # None =>
            /\ replies[i].code = 500
            /\ replies[i].route \in DOMAIN ClauseRoutes =>
                    replies[i].detail = replies[i].raised
            /\ replies[i].route \in DOMAIN ServiceRoutes =>
                    /\ replies[i].detail = "Internal Server Error"
                    /\ replies[i].detail # replies[i].raised
    /\ \A c \in ReqCallers :
        runs[c].pc = "raised" =>
            /\ runs[c].reply.code = 500
            /\ runs[c].reply.detail \in {"Analysis failed: " \o e : e \in AnalysisErrors}

(* The model of a route of one service has raised. *)
C6_Witness ==
    \E i \in 1..Len(replies) :
        /\ replies[i].route = "/ner"
        /\ replies[i].raised = InferenceError
        /\ replies[i].code = 500

(* ----- the log of a triggered analysis ----- *)
IsCall(entry, name) == entry.kind = "call" /\ entry.model = name

IsResult(entry, status) == entry.kind = "result" /\ entry.json.status = status

FailedCalls(calls) == {i \in 1..Len(calls) : ~calls[i].ok}

FailedModelCalls(log) == {i \in 1..Len(log) : log[i].kind = "call" /\ ~log[i].ok}

RiskCalls(log) == {i \in 1..Len(log) : IsCall(log[i], "risk")}

(* The place of the risk call log[i] among the risk calls. *)
RiskIndex(log, i) == Cardinality({j \in RiskCalls(log) : j <= i})

(* C7, as stated: an analysis in which a model has raised still gets its   *)
(* response: the request is not failed, and no "failed" result is sent.    *)
C7_FailureDegradesField ==
    /\ \A c \in ReqCallers :
        FailedCalls(runs[c].calls) # {} => runs[c].pc # "raised"
    /\ \A t \in TriggerIds :
        FailedModelCalls(triggers[t].log) # {} =>
            \A i \in 1..Len(triggers[t].log) : ~IsResult(triggers[t].log[i], "failed")

(* C7, amended: the only failure that degrades one field is that of        *)
(* score_clause for one clause in the triggered analysis: that clause's    *)
(* risk factor gets score 0 and level "ERROR", and the results are still   *)
(* put together from what the other calls returned. Any model failure in   *)
(* /analyze/complete fails the request with HTTP 500 and no response, and  *)
(* a failure of NER, the classifier or the summarizer in the triggered     *)
(* analysis ends it with a "failed" result that carries no results.        *)
C7_FailureFailsAnalysis ==
    /\ \A c \in ReqCallers :
        FailedCalls(runs[c].calls) # {} =>
            /\ runs[c].pc = "raised"
            /\ runs[c].reply.code = 500
            /\ runs[c].response = NoResponse
    /\ \A t \in TriggerIds :
        LET task == triggers[t]
            log == task.log
        IN  \A i \in 1..Len(log) :
                /\ log[i].kind = "call" /\ ~log[i].ok /\ log[i].model # "risk" =>
                    /\ i < Len(log)
                    /\ IsResult(log[i + 1], "failed")
                    /\ "results" \notin DOMAIN log[i + 1].json
                    /\ \A j \in 1..Len(log) : ~IsResult(log[j], "completed")
                /\ IsCall(log[i], "risk") =>
                    /\ RiskIndex(log, i) <= Len(task.risk_scores)
                    /\ ~log[i].ok <=>
                          task.risk_scores[RiskIndex(log, i)].risk_level = "ERROR"
                    /\ ~log[i].ok =>
                          task.risk_scores[RiskIndex(log, i)].risk_score = 0
                    /\ i < Len(log) /\ ~IsResult(log[i + 1], "failed")
                /\ IsResult(log[i], "completed") =>
                    /\ log[i].json.results.entities = task.entities
                    /\ log[i].json.results.classification.clauses =
                          TopClauses(task.classifications, TriggerResultClauses)
                    /\ log[i].json.results.risk_assessment.risk_factors = task.risk_scores
                    /\ log[i].json.results.summary = task.summary

(* The scorer raised in a triggered analysis that sent its results, and    *)
(* the classifier raised in a direct request.                              *)
C7_Witness ==
    /\ \E c \in ReqCallers :
        /\ runs[c].pc = "raised"
        /\ FailedCalls(runs[c].calls) # {}
    /\ \E t \in TriggerIds :
        /\ triggers[t].pc = "done"
        /\ \E i \in RiskCalls(triggers[t].log) : ~triggers[t].log[i].ok
        /\ IsResult(triggers[t].log[Len(triggers[t].log)], "completed")

C8_Returned ==
    \A c \in Callers :
        runs[c].pc = "returned" =>
            /\ runs[c].reply.code = 200
            /\ runs[c].reply.body = runs[c].response
            /\ runs[c].callback \in {"results sent", "backend integration warning",
                                     "backend integration error"}

C8_AfterSend ==
    \A c \in Callers :
        runs[c].pc = "send" /\ runs'[c] # runs[c] =>
            /\ runs'[c].pc = "returned"
            /\ runs'[c].reply = [code |-> 200, body |-> runs[c].response]

(* C8: once the response of /analyze/complete is built, the request        *)
(* returns it with HTTP 200 whatever the callback to the backend does: an  *)
(* error value and an exception of send_analysis_result are only logged.   *)
C8_CallbackNeverFails == []C8_Returned /\ [][C8_AfterSend]_vars

(* The callback raised and the response was returned. *)
C8_Witness ==
    \E c \in ReqCallers :
        /\ runs[c].pc = "returned"
        /\ runs[c].callback = "backend integration error"
        /\ runs[c].reply.code = 200

(* ===================== properties of the trigger ======================= *)
ProgressOrder == <<10, 25, 50, 75, 90>>

StatusUpdates(log) == {i \in 1..Len(log) : log[i].kind = "status"}

(* The place of the status update log[i] among the status updates. *)
StatusIndex(log, i) == Cardinality({j \in StatusUpdates(log) : j <= i})

(* C9: POST /document/analyze answers "queued" before anything is sent;    *)
(* the task then sends the status "processing" with progress 10, 25, 50,   *)
(* 75, 90 in this order: 25 right after NER returned, 50 right after the   *)
(* classifier returned, 75 right after the risk loop, 90 right after the   *)
(* summarizer returned; the "completed" result is sent only after the 90   *)
(* update, and no status update follows a result.                          *)
C9_ProgressSequence ==
    \A t \in TriggerIds :
        LET task == triggers[t]
            log == task.log
        IN  /\ task.pc # "none" =>
                /\ task.reply.code = 200
                /\ task.reply.body.status = "queued"
                /\ task.reply.body.analysis_id = task.analysis_id
            /\ task.pc \in {"none", "queued"} => log = <<>>
            /\ \A i \in StatusUpdates(log) :
                LET k == StatusIndex(log, i)
                IN  /\ k <= Len(ProgressOrder)
                    /\ log[i].json.progress = ProgressOrder[k]
                    /\ log[i].json.status = "processing"
                    /\ log[i].analysis_id = task.analysis_id
                    /\ k = 1 => i = 1
                    /\ k = 2 => log[i - 1] = ModelCall("ner", TRUE)
                    /\ k = 3 => log[i - 1] = ModelCall("classifier", TRUE)
                    /\ k = 4 =>
                        /\ RiskCalls(log) =
                              {j \in 1..(i - 1) : StatusIndex(log, j) = 3 /\ j \notin StatusUpdates(log)}
                        /\ Cardinality(RiskCalls(log)) =
                              Len(TopClauses(task.classifications, TriggerRiskClauses))
                    /\ k = 5 => log[i - 1] = ModelCall("summarizer", TRUE)
            /\ \A i \in 1..Len(log) :
                /\ IsResult(log[i], "completed") =>
                    /\ i > 1
                    /\ log[i - 1] = StatusUpdate(task.analysis_id, "processing", 90)
                    /\ Cardinality(StatusUpdates(log)) = Len(ProgressOrder)
                    /\ log[i].json.analysis_id = task.analysis_id
                /\ log[i].kind = "result" =>
                    \A j \in (i + 1)..Len(log) : log[j].kind # "status"

(* An analysis of a document with a clause has sent all its updates and    *)
(* its completed result.                                                   *)
C9_Witness ==
    \E t \in TriggerIds :
        /\ triggers[t].pc = "done"
        /\ RiskCalls(triggers[t].log) # {}
        /\ Cardinality(StatusUpdates(triggers[t].log)) = 5
        /\ IsResult(triggers[t].log[Len(triggers[t].log)], "completed")

TriggerErrors == {LoadError, InferenceError, EncodeError}

FailedResults(log) == {i \in 1..Len(log) : IsResult(log[i], "failed")}

(* C10: when a step of the triggered analysis raises, the task sends one   *)
(* result with the same analysis_id and document_id, status "failed" and   *)
(* the exception string as error, and nothing after it; an exception of    *)
(* score_clause for one clause is caught in the loop: the clause's risk    *)
(* factor gets score 0 and level "ERROR" and the analysis goes on.         *)
C10_FailureReported ==
    \A t \in TriggerIds :
        LET task == triggers[t]
            log == task.log
        IN  /\ Cardinality(FailedResults(log)) <= 1
            /\ \A i \in FailedResults(log) :
                /\ i = Len(log)
                /\ log[i].json.analysis_id = task.analysis_id
                /\ log[i].json.document_id = task.document_id
                /\ log[i].json.error \in TriggerErrors
            /\ \A i \in FailedModelCalls(log) :
                IF log[i].model = "risk"
                THEN /\ task.risk_scores[RiskIndex(log, i)].risk_score = 0
                     /\ task.risk_scores[RiskIndex(log, i)].risk_level = "ERROR"
                     /\ i < Len(log)
                     /\ log[i + 1].kind = "status" \/ IsCall(log[i + 1], "risk")
                ELSE /\ i + 1 = Len(log)
                     /\ IsResult(log[i + 1], "failed")
                     /\ log[i + 1].json.error = InferenceError
            /\ task.pc \in {"await_failed", "crashed"} =>
                    Len(log) > 0 /\ IsResult(log[Len(log)], "failed")
            /\ task.pc = "done" => Len(log) > 0 /\ log[Len(log)].kind = "result"

(* The scorer raised for a clause, the analysis went on, the summarizer    *)
(* raised and the failed result was sent.                                  *)
C10_Witness ==
    \E t \in TriggerIds :
        LET log == triggers[t].log
        IN  /\ triggers[t].pc = "done"
            /\ \E i \in RiskCalls(log) : ~log[i].ok
            /\ Len(log) > 1
            /\ log[Len(log) - 1] = ModelCall("summarizer", FALSE)
            /\ IsResult(log[Len(log)], "failed")

(* ================= properties of the backend callbacks ================= *)
(* AnalysisResult: the fields with no default. *)
AnalysisResultRequired ==
    {"analysis_id", "document_id", "analysis_type", "status", "timestamp", "results"}

(* AnalysisStatusUpdate: status is required, progress is None or in 0..100. *)
ValidStatusUpdate(json) ==
    /\ "status" \in DOMAIN json
    /\ "progress" \in DOMAIN json => json.progress \in 0..100

ValidAnalysisResult(json) == AnalysisResultRequired \subseteq DOMAIN json

(* C11: every payload sent to the backend has the fields its endpoint      *)
(* requires: each result POST of the triggered analysis and the payload    *)
(* that /analyze/complete sends (response.dict()) has every required field *)
(* of AnalysisResult, and each status PATCH is a valid                     *)
(* AnalysisStatusUpdate.                                                   *)
C11_PayloadsComplete ==
    /\ \A t \in TriggerIds :
        \A i \in 1..Len(triggers[t].log) :
            /\ triggers[t].log[i].kind = "result" =>
                    ValidAnalysisResult(triggers[t].log[i].json)
            /\ triggers[t].log[i].kind = "status" =>
                    ValidStatusUpdate(triggers[t].log[i].json)
    /\ \A c \in ReqCallers :
        runs[c].pc \in {"send", "returned"} => ValidAnalysisResult(runs[c].response)

Awaits == <<"await10", "await25", "await50", "await75", "await90", "await_result">>

(* The await that follows await number k of the task. *)
NextAwait(pc) == Awaits[(CHOOSE k \in 1..(Len(Awaits) - 1) : Awaits[k] = pc) + 1]

CountIn(log, entries) == Cardinality({i \in 1..Len(log) : log[i] \in entries})

C12_Once ==
    \A t \in TriggerIds :
        LET task == triggers[t]
            log == task.log
        IN  /\ \A k \in 1..Len(ProgressOrder) :
                CountIn(log, {StatusUpdate(task.analysis_id, "processing", ProgressOrder[k])}) <= 1
            /\ \A name \in {"ner", "classifier", "summarizer"} :
                CountIn(log, {ModelCall(name, TRUE), ModelCall(name, FALSE)}) <= 1
            /\ Cardinality({i \in 1..Len(log) : IsResult(log[i], "completed")}) <= 1
            /\ Cardinality(FailedResults(log)) <= 1
            /\ \A i \in FailedResults(log) : log[i].json.error # TransportError

C12_GoesOn ==
    \A t \in TriggerIds :
        LET before == triggers[t]
            after == triggers'[t]
        IN  (/\ before.pc \in {"await10", "await25", "await50", "await75", "await90"}
             /\ before # after
             /\ after.updated = "False") =>
                /\ \/ after.pc = NextAwait(before.pc) /\ Len(after.log) > Len(before.log)
                   \/ /\ after.pc = "await_failed"
                      /\ after.log[Len(after.log)].json.error \in {LoadError, InferenceError}
                /\ before.pc = "await90" =>
                      /\ after.pc = "await_result"
                      /\ IsResult(after.log[Len(after.log)], "completed")

(* C12: no callback is retried: each status PATCH, each model step and     *)
(* each result POST of a triggered analysis happens at most once; and an   *)
(* HTTP error of a status update only makes update_analysis_status return  *)
(* False: the task goes on to its next step (it ends "failed" only when a  *)
(* model step raises, never with the transport error), and after a failed  *)
(* 90 update it still sends the completed result.                          *)
C12_FireAndForget == []C12_Once /\ [][C12_GoesOn]_vars

(* The 90 update failed with an HTTP error; the completed result was sent  *)
(* and the task is over.                                                   *)
C12_Witness ==
    \E t \in TriggerIds :
        /\ triggers[t].pc = "done"
        /\ triggers[t].updated = "False"
        /\ Cardinality(StatusUpdates(triggers[t].log)) = 5
        /\ IsResult(triggers[t].log[Len(triggers[t].log)], "completed")

(* ===================== properties of the model loading ================= *)
(* The keys of the dict get_models of a module returns. *)
EntriesOf(module) ==
    IF module = "document_analysis" THEN ModelNames
    ELSE {TriggerLoadOrder[i] : i \in 1..Len(TriggerLoadOrder)}

C13_AllLoaded ==
    \A i \in 1..Len(loads) :
        ~loads[i].raised => loads[i].entries = EntriesOf(loads[i].module)

C13_Once ==
    \A module \in Modules : \A k \in ModelNames : constructed[module][k] <= 1

(* C13: after any sequence of get_models calls, also one in which a        *)
(* constructor raised part-way, every call that returns yields a dict with *)
(* no entry None, and no module has constructed a model more than once.    *)
C13_LoadedOnce == C13_AllLoaded /\ C13_Once

(* ====================== properties of the accessors ==================== *)
(* C14: under any interleaving of the callers, an accessor constructs at   *)
(* most one instance and every caller of it receives that same instance.   *)
C14_Singleton ==
    /\ \A n \in SingletonNames : made[n] <= 1
    /\ \A v, w \in ThreadIds :
        /\ workers[v].pc = "returned"
        /\ workers[w].pc = "returned"
        /\ workers[v].accessor = workers[w].accessor
        => workers[v].got = workers[w].got

(* ===================== properties of the risk scorer =================== *)
RiskReplies(route) ==
    {r \in 1..Len(replies) : replies[r].route = route /\ "body" \in DOMAIN replies[r]}

(* entry is the result for a clause whose classifier outputs are probs:    *)
(* the score is the index of the first highest output plus one, it lies in *)
(* 1..10, and the level is the name of exactly that score.                 *)
IsScoreOf(entry, probs) ==
    /\ entry.risk_score \in 1..NumRiskClasses
    /\ \A j \in DOMAIN probs : probs[j] <= probs[entry.risk_score - 1]
    /\ \A j \in DOMAIN probs : j < entry.risk_score - 1 => probs[j] < probs[entry.risk_score - 1]
    /\ entry.risk_level = risk_levels[entry.risk_score]

(* C15: score_clause returns risk_score = argmax + 1, an integer in 1..10, *)
(* with the risk_level of that score, and every per-clause entry of        *)
(* score_document carries such a score.                                    *)
C15_ScoreInRange ==
    /\ \A r \in RiskReplies("/risk/score") :
        IsScoreOf(replies[r].body, replies[r].outputs[1])
    /\ \A r \in RiskReplies("/risk/score_document") :
        /\ replies[r].body.num_clauses = Len(replies[r].outputs)
        /\ replies[r].body.num_clauses > 0 =>
            \A i \in 1..Len(replies[r].outputs) :
                IsScoreOf(replies[r].body.all_clause_scores[i], replies[r].outputs[i])

(* A document of two scored clauses, one at each end of the scale. *)
C15_Witness ==
    \E r \in RiskReplies("/risk/score_document") :
        /\ replies[r].body.num_clauses = 2
        /\ replies[r].body.all_clause_scores[1].risk_score = 1
        /\ replies[r].body.all_clause_scores[2].risk_score = NumRiskClasses

(* ================= properties of the /analyze/complete risks ============ *)
(* The scores the scorer rates high or critical (7-8 and 9-10). *)
HighOrCritical(score) == score >= 7

(* C16: each risks entry of the response carries a risk_score and          *)
(* risk_level the scorer returns for a clause, average_risk_score is the   *)
(* mean of these scores (0 when there is no clause) and high_risk_count    *)
(* the number of clauses rated high or critical.                           *)
C16_RisksFromScorer ==
    \A c \in Callers :
        runs[c].pc \in {"send", "returned"} =>
            LET body == runs[c].response
                scores == [i \in 1..Len(body.risks) |-> body.risks[i].risk_score]
            IN  /\ Len(body.risks) = body.clause_count
                /\ \A i \in 1..Len(body.risks) :
                    \E result \in ScorerResults :
                        /\ body.risks[i].risk_score = result.risk_score
                        /\ body.risks[i].risk_level = result.risk_level
                /\ body.average_risk_score =
                      IF body.clause_count = 0 THEN 0
                      ELSE Round2(SumSeq(scores), body.clause_count)
                /\ body.high_risk_count =
                      Cardinality({i \in 1..Len(body.risks) : HighOrCritical(scores[i])})

(* ================== properties of concurrent batch jobs ================ *)
IsPrefix(s, t) == Len(s) <= Len(t) /\ \A i \in 1..Len(s) : s[i] = t[i]

(* A record, or the response made from it, between two updates: processed *)
(* counts the results and completed_at is set exactly with "completed".    *)
Counted(job) ==
    /\ job.processed = Len(job.results)
    /\ job.processed <= job.total_documents
    /\ job.status = "completed" <=> job.completed_at # {}
    /\ job.status = "completed" => job.processed = job.total_documents

Settled(job) == Counted(job) /\ (job.status = "failed" <=> job.error # None)

(* A poll saw a record in the middle of an update, or a record has lost    *)
(* an update.                                                              *)
C17_Race ==
    \/ \E j \in DOMAIN batch_jobs : ~Settled(batch_jobs[j])
    \/ /\ poll # NoPoll
       /\ poll.reply.code = 200
       /\ ~Counted(poll.reply.body)

(* C17 as stated: with two jobs in process and polls in between, the run   *)
(* comes to a lost or overwritten update or to a poll of a record that is  *)
(* in the middle of an update.                                             *)
C17_RaceReached == <>C17_Race

(* Every write of a record is made by the task of that job, while it holds *)
(* the event loop; it appends to the results and never takes one away.     *)
C17_OwnWrites ==
    \A j \in DOMAIN batch_jobs :
        batch_jobs'[j] # batch_jobs[j] =>
            /\ <<"job", j>> \in {running, running'}
            /\ tasks'[j] # tasks[j]
            /\ \A k \in DOMAIN batch_jobs : k # j => batch_jobs'[k] = batch_jobs[k]
            /\ IsPrefix(batch_jobs[j].results, batch_jobs'[j].results)
            /\ Len(batch_jobs'[j].results) <= Len(batch_jobs[j].results) + 1
            /\ batch_jobs'[j].processed >= batch_jobs[j].processed
            /\ batch_jobs'[j].started_at = batch_jobs[j].started_at
            /\ batch_jobs'[j].total_documents = batch_jobs[j].total_documents

(* A poll runs only when no task is inside a step. *)
C17_PollBetweenSteps == poll' # NoPoll => running = NoOne /\ running' = NoOne

(* C17, amended: no race is reachable. With any jobs in process and polls  *)
(* in between, each record is written by its own task only, no result is   *)
(* lost or overwritten, and every poll sees a record between two updates.  *)
C17_NoRace == []~C17_Race /\ [][C17_OwnWrites /\ C17_PollBetweenSteps]_vars

(* Two jobs in process at once, each with one document recorded and one to *)
(* go, and a poll of the first of them.                                    *)
C17_Witness ==
    /\ poll # NoPoll
    /\ poll.job_id = 1
    /\ poll.reply.code = 200
    /\ poll.reply.body.status = "processing"
    /\ poll.reply.body.processed = 1
    /\ 2 \in DOMAIN batch_jobs
    /\ batch_jobs[2].status = "processing"
    /\ batch_jobs[2].processed = 1
    /\ batch_jobs[2].total_documents = 2

(* =================== properties of batch termination =================== *)
Terminal == {"completed", "failed"}

C18_Ends(j) ==
    (tasks[j].pc = "queued") ~> (tasks[j].pc = "done" /\ batch_jobs[j].status \in Terminal)

(* C18: every job that is queued reaches completed or failed: its task     *)
(* ends, whatever its documents and whatever raises, and the status of an  *)
(* ended task is never queued or processing.                               *)
C18_JobsTerminate ==
    /\ \A j \in JobIds : C18_Ends(j)
    /\ [](\A j \in DOMAIN batch_jobs :
            tasks[j].pc = "done" <=> batch_jobs[j].status \in Terminal)

(* Both jobs have ended, one completed and the other failed. *)
C18_Witness ==
    /\ DOMAIN batch_jobs = 1..2
    /\ \A j \in 1..2 : tasks[j].pc = "done"
    /\ batch_jobs[1].status = "failed"
    /\ batch_jobs[2].status = "completed"
    /\ batch_jobs[2].total_documents = 2

(* ====================== properties of LegalNER.predict ================= *)
(* C19: the offsets of the entities index the text predict was called      *)
(* with: for every raw entity text[start:end] is the text of its token,    *)
(* and the text of every merged entity is text[start:end].                 *)
C19_OffsetsIndexText ==
    /\ \A i \in 1..Len(ner.entities_raw) :
        LET entity == ner.entities_raw[i]
        IN  Slice(ner.text, entity.start, entity.end) = entity.text
    /\ \A i \in 1..Len(ner.merged_entities) :
        LET entity == ner.merged_entities[i]
        IN  Slice(ner.text, entity.start, entity.end) = entity.text

(* The raw entity i goes on the entity before it. *)
Continues(raw, i) ==
    /\ i > 1
    /\ HasPrefix(raw[i].label, "I-")
    /\ base_label(raw[i].label) = base_label(raw[i - 1].label)

GroupStarts(raw) == {i \in 1..Len(raw) : ~Continues(raw, i)}

(* The first and the last raw entity of the k-th group. *)
GroupFirst(raw, k) ==
    CHOOSE i \in GroupStarts(raw) : Cardinality({j \in GroupStarts(raw) : j <= i}) = k

GroupLast(raw, k) ==
    IF k = Cardinality(GroupStarts(raw)) THEN Len(raw) ELSE GroupFirst(raw, k + 1) - 1

(* C20: a raw entity is merged into the current one exactly when its label *)
(* starts with "I-" and has the base label of the current one; a merged    *)
(* entity starts where its first token starts, ends where its last token   *)
(* ends and has the highest of their scores; the order is kept; and the    *)
(* span of a merged entity covers no token that was skipped as non-entity. *)
C20_MergeAdjacent ==
    ner.pc \in {"merged", "returned"} =>
        LET raw == ner.entities_raw
            merged == ner.merged_entities
        IN  /\ Len(merged) = Cardinality(GroupStarts(raw))
            /\ \A k \in 1..Len(merged) :
                LET first == GroupFirst(raw, k)
                    last == GroupLast(raw, k)
                IN  /\ merged[k].start = raw[first].start
                    /\ merged[k].end = raw[last].end
                    /\ merged[k].type = base_label(raw[first].label)
                    /\ \A i \in first..last : merged[k].score >= raw[i].score
                    /\ \E i \in first..last : merged[k].score = raw[i].score
                    /\ \A t \in 1..Len(ner.tokens) :
                        /\ merged[k].start <= ner.tokens[t].start
                        /\ ner.tokens[t].end <= merged[k].end
                        => ner.tokens[t].label # "O"

====
